---- MODULE Spec2Model ----
(***************************************************************************)
(* Liquidity service: the slippage search (utils/slippage), the            *)
(* orchestrator LiquidityService.getLiquidityQuotes, the GET /liquidity    *)
(* handler with its error classification, and the SimpleCache.             *)
(*                                                                         *)
(* Amounts are integers in base units.  The code's PRECISION_BASE is       *)
(* 10^18; the model uses 10^PrecisionDigits because the checker's integers *)
(* are 32 bits wide.  Error messages are sequences of word tokens and      *)
(* String.includes is contiguous-subsequence matching on those tokens.     *)
(***************************************************************************)
EXTENDS Integers, Sequences, FiniteSets, TLC

VARIABLES
    pc,       \* position of the request / harness
    req,      \* query parameters of the current GET /liquidity request
    nreq,     \* number of requests received so far
    rpc,      \* state of each read-only RPC call of the current request
    chain,    \* what the chain answers: pool existence, reserves, tokens, decimals
    sp,       \* parameters handed to calculateSlippageQuote
    oracle,   \* behaviour of router.getAmountsOut towards each search
    srch,     \* the three calculateSlippageQuote runs (1%, 5%, 10%)
    result,   \* outcome of getLiquidityQuotes
    http,     \* HTTP response written by the handler
    cache,    \* SimpleCache entries, in Map insertion order
    now,      \* Date.now()
    fail,     \* cause of the request's failure (history variable)
    cacheMaxSize,  \* SimpleCache.maxSize
    cacheTtl,      \* SimpleCache.ttl
    last,     \* the latest SimpleCache operation and the cache before it (history variable)
    flight    \* GET /liquidity requests in flight together, the orchestrator as their environment

vars == <<pc, req, nreq, rpc, chain, sp, oracle, srch, result, http, cache, now, fail,
          cacheMaxSize, cacheTtl, last, flight>>

-----------------------------------------------------------------------------
(* Bounds *)

PrecisionDigits == 3
MaxAmountOut == 3
MaxRequests == 2
MaxCapacity == 2
MaxTime == 2
MaxInFlight == 3
MaxTicks == 2
ScaledCacheSize == 1
WideCapacity == 8
MaxDecimals == 79

-----------------------------------------------------------------------------
(* Program constants *)

MAX_ITERATIONS == 15
TOLERANCE_BP == 50
BP_SCALE == 10000
MIN_TRADE_FRACTION_DIGITS == 3
WIDE_WINDOW_PERCENT == 60
NARROW_WINDOW_PERCENT == 20
WIDE_WINDOW_FROM_BP == 1000

Levels == 1 .. 3

NULL == "null"
\* a nullable value is << >> (null) or <<v>>
Null == << >>
Some(v) == <<v>>
INFINITY == -1

RECURSIVE Pow10(_)
Pow10(n) == IF n <= 0 THEN 1 ELSE 10 * Pow10(n - 1)

PRECISION_BASE == Pow10(PrecisionDigits)

Abs(x) == IF x < 0 THEN -x ELSE x

\* BigNumber.div truncates toward zero
TruncDiv(a, b) == IF a >= 0 THEN a \div b ELSE -((-a) \div b)

-----------------------------------------------------------------------------
(* Slippage levels *)

\* slippageLevels = [0.01, 0.05, 0.1]; Math.floor(targetSlippage * 10000)
TargetBP(level) == CASE level = 1 -> 100 [] level = 2 -> 500 [] OTHER -> 1000

\* `${targetSlippage * 100}%`
PercentLabel(level) == CASE level = 1 -> "1%" [] level = 2 -> "5%" [] OTHER -> "10%"

\* the response's slot names
SlotName(level) == PercentLabel(level)

MaxTradePercentWide(level) == WIDE_WINDOW_PERCENT

\* targetSlippage >= 0.1 ? 60 : 20
MaxTradePercent(level) ==
    IF TargetBP(level) >= WIDE_WINDOW_FROM_BP THEN WIDE_WINDOW_PERCENT
    ELSE NARROW_WINDOW_PERCENT

-----------------------------------------------------------------------------
(* ethers.utils.formatUnits / parseUnits *)

RECURSIVE DigitsOf(_, _)
\* the n decimal digits of v, most significant first (zero padded)
DigitsOf(v, n) == IF n = 0 THEN << >> ELSE Append(DigitsOf(v \div 10, n - 1), v % 10)

RECURSIVE TrimZeros(_)
\* ([0-9]*[1-9]|0)(0*): drop trailing zeros, keep one digit
TrimZeros(ds) ==
    IF Len(ds) > 1 /\ ds[Len(ds)] = 0 THEN TrimZeros(SubSeq(ds, 1, Len(ds) - 1)) ELSE ds

\* the decimal string whole "." frac (no "." when decimals = 0)
FormatUnits(v, decimals) ==
    [whole |-> v \div Pow10(decimals),
     frac  |-> TrimZeros(DigitsOf(v % Pow10(decimals), decimals))]

RECURSIVE FracValue(_, _)
FracValue(ds, decimals) ==
    IF ds = << >> THEN 0
    ELSE Head(ds) * Pow10(decimals - 1) + FracValue(Tail(ds), decimals - 1)

\* base units denoted by a formatted amount
UnitsOf(str, decimals) == str.whole * Pow10(decimals) + FracValue(str.frac, decimals)

\* parseUnits('0.001', decimals) throws when decimals < 3
ParseMilliThrows(decimals) == decimals < MIN_TRADE_FRACTION_DIGITS

ParseMilli(decimals) == Pow10(decimals - MIN_TRADE_FRACTION_DIGITS)

-----------------------------------------------------------------------------
(* Error messages *)

MsgSearchZeroReserves ==
    <<"Reserve", "amounts", "are", "zero", "-", "cannot", "calculate", "price">>

MsgNoQuote(level) ==
    <<"Could", "not", "calculate", "quote", "for", PercentLabel(level), "slippage">>

MsgNumericFault == <<"fractional", "component", "exceeds", "decimals">>

-----------------------------------------------------------------------------
(* calculateSlippageQuote *)

IdleSearch ==
    [st |-> "idle", low |-> 0, high |-> 0, i |-> 0, mid |-> 0,
     best |-> Null, bestDiffBP |-> INFINITY, calls |-> 0, err |-> << >>,
     seenMin |-> INFINITY, seenMid |-> 0, seenOut |-> 0, order |-> 0,
     trace |-> << >>]

ZeroReservesSellOnly(reserveSell, reserveBuy) == reserveSell = 0

ZeroReserves(reserveSell, reserveBuy) == reserveSell = 0 \/ reserveBuy = 0

SpotPrice(p) == (p.reserveBuy * PRECISION_BASE) \div p.reserveSell

SkipMidZeroOnly(mid, reserveSell) == mid = 0

SkipMid(mid, reserveSell) == mid = 0 \/ mid >= reserveSell \div 2

WithinToleranceNever(diffBP) == FALSE

WithinTolerance(diffBP) == diffBP <= TOLERANCE_BP

ImpactBelowTargetInverted(priceImpactBP, level) == priceImpactBP >= TargetBP(level)

ImpactBelowTarget(priceImpactBP, level) == priceImpactBP < TargetBP(level)

IsBetterAlways(diffBP, bestDiffBP) == TRUE

IsBetterOrTied(diffBP, bestDiffBP) == bestDiffBP = INFINITY \/ diffBP <= bestDiffBP

IsBetter(diffBP, bestDiffBP) == bestDiffBP = INFINITY \/ diffBP < bestDiffBP

Quote(mid, amountOut, p) ==
    [sellAmount |-> FormatUnits(mid, p.sellTokenDecimals),
     buyAmount  |-> FormatUnits(amountOut, p.buyTokenDecimals)]

Reject(s, msg) == [s EXCEPT !.st = "rejected", !.err = msg]

\* after the loop: throw when bestResult is null, else return it
AfterLoop(s, level) ==
    IF s.best = Null THEN Reject(s, MsgNoQuote(level))
    ELSE [s EXCEPT !.st = "fulfilled"]

LoopContinuesWhileInterval(s) == s.low <= s.high

\* for (let i = 0; i < 15 && low.lte(high); i++)
LoopContinues(s) == s.i < MAX_ITERATIONS /\ s.low <= s.high

\* history: one entry per completed iteration of the loop, with low, high
\* and bestResult as the iteration found them
Log(s, kind, mid, out, impact) ==
    [s EXCEPT !.trace = Append(@, [i |-> s.i, low |-> s.low, high |-> s.high,
                                   mid |-> mid, kind |-> kind, out |-> out,
                                   impact |-> impact, best |-> s.best])]

RECURSIVE RunToAwait(_, _, _)
\* the loop from its head up to the next router call or the function's end
RunToAwait(s, p, level) ==
    IF LoopContinues(s)
    THEN LET mid == (s.low + s.high) \div 2
         IN IF SkipMid(mid, p.reserveSell)
            THEN RunToAwait([Log(s, "skipped", mid, 0, 0) EXCEPT
                                !.high = mid - 1, !.i = @ + 1], p, level)
            ELSE [s EXCEPT !.st = "awaiting", !.mid = mid, !.calls = @ + 1]
    ELSE AfterLoop(s, level)

\* entry of calculateSlippageQuote up to its first await
NewSearch(p, level) ==
    IF ZeroReserves(p.reserveSell, p.reserveBuy)
    THEN Reject(IdleSearch, MsgSearchZeroReserves)
    ELSE IF ParseMilliThrows(p.sellTokenDecimals)
    THEN Reject(IdleSearch, MsgNumericFault)
    ELSE RunToAwait([IdleSearch EXCEPT
                        !.low = ParseMilli(p.sellTokenDecimals),
                        !.high = (p.reserveSell * MaxTradePercent(level)) \div 100],
                    p, level)

ShrinkHighRaisesLow(s, p, level) ==
    RunToAwait([s EXCEPT !.low = s.mid + 1, !.i = @ + 1], p, level)

\* catch (error) { high = mid.sub(1) }, and the amountOut.eq(0) branch
ShrinkHigh(s, p, level) ==
    RunToAwait([s EXCEPT !.high = s.mid - 1, !.i = @ + 1], p, level)

\* history: the closest candidate evaluated so far, earliest on ties
Seen(s, diffBP, amountOut) ==
    IF s.seenMin = INFINITY \/ diffBP < s.seenMin
    THEN [s EXCEPT !.seenMin = diffBP, !.seenMid = s.mid, !.seenOut = amountOut]
    ELSE s

\* the try block after router.getAmountsOut resolved with amountOut
OnAmountOut(s, p, level, amountOut) ==
    IF amountOut = 0 THEN ShrinkHigh(Log(s, "zero", s.mid, 0, 0), p, level)
    ELSE IF SpotPrice(p) = 0                                \* div throws
    THEN ShrinkHigh(Log(s, "threw", s.mid, amountOut, 0), p, level)
    ELSE
      LET effectivePrice == (amountOut * PRECISION_BASE) \div s.mid
          priceImpactBP  == TruncDiv((SpotPrice(p) - effectivePrice) * BP_SCALE,
                                     SpotPrice(p))
          diffBP         == Abs(priceImpactBP - TargetBP(level))
          kind           == IF WithinTolerance(diffBP) THEN "accepted" ELSE "evaluated"
          s0             == Seen(Log(s, kind, s.mid, amountOut, priceImpactBP),
                                 diffBP, amountOut)
      IN IF WithinTolerance(diffBP)
         THEN [s0 EXCEPT !.st = "fulfilled",
                         !.best = Some(Quote(s.mid, amountOut, p))]
         ELSE LET s1 == IF IsBetter(diffBP, s0.bestDiffBP)
                        THEN [s0 EXCEPT !.bestDiffBP = diffBP,
                                        !.best = Some(Quote(s.mid, amountOut, p))]
                        ELSE s0
                  s2 == IF ImpactBelowTarget(priceImpactBP, level)
                        THEN [s1 EXCEPT !.low = s.mid + 1]
                        ELSE [s1 EXCEPT !.high = s.mid - 1]
              IN RunToAwait([s2 EXCEPT !.i = @ + 1], p, level)

Settled(s) == s.st \in {"fulfilled", "rejected"}

\* history: the rank at which search i settles among the searches ss
Stamp(ss, i, s) ==
    IF Settled(s) /\ ~Settled(ss[i])
    THEN [s EXCEPT !.order = 1 + Cardinality({j \in Levels : Settled(ss[j])})]
    ELSE s

\* slippageLevels.map(calculateSlippageQuote): each search runs up to its
\* first await before the next one is called
LaunchAll(p) ==
    LET none   == [i \in Levels |-> IdleSearch]
        first  == [none EXCEPT ![1] = Stamp(none, 1, NewSearch(p, 1))]
        second == [first EXCEPT ![2] = Stamp(first, 2, NewSearch(p, 2))]
    IN [second EXCEPT ![3] = Stamp(second, 3, NewSearch(p, 3))]

-----------------------------------------------------------------------------
(* The router as the searches see it *)

\* constant-product pricing: amountIn * reserveBuy / (reserveSell + amountIn)
ConstantProductOut(p, amountIn) ==
    (amountIn * p.reserveBuy) \div (p.reserveSell + amountIn)

OracleOuts(i) ==
    IF oracle[i] = "cp" THEN {ConstantProductOut(sp, srch[i].mid)}
    ELSE IF oracle[i] = "flaky" THEN {0, ConstantProductOut(sp, srch[i].mid)}
    ELSE 0 .. MaxAmountOut

\* router.getAmountsOut(mid, path) resolves before the timer
OracleResponds(i) ==
    /\ srch[i].st = "awaiting"
    /\ oracle[i] \in {"cp", "any", "flaky"}
    /\ \E out \in OracleOuts(i) :
         srch' = [srch EXCEPT ![i] = Stamp(srch, i, OnAmountOut(srch[i], sp, i, out))]
    /\ UNCHANGED <<pc, req, nreq, rpc, chain, sp, oracle, result, http, cache, now, fail>>
    /\ UNCHANGED <<cacheMaxSize, cacheTtl, last, flight>>

\* router.getAmountsOut(mid, path) rejects before the timer
OracleFails(i) ==
    /\ srch[i].st = "awaiting"
    /\ oracle[i] \in {"errors", "any", "flaky"}
    /\ srch' = [srch EXCEPT ![i] = Stamp(srch, i,
                  ShrinkHigh(Log(srch[i], "rejected", srch[i].mid, 0, 0), sp, i))]
    /\ UNCHANGED <<pc, req, nreq, rpc, chain, sp, oracle, result, http, cache, now, fail>>
    /\ UNCHANGED <<cacheMaxSize, cacheTtl, last, flight>>

OracleTimesOutNever(i) ==
    /\ srch[i].st = "awaiting"
    /\ FALSE
    /\ UNCHANGED vars

\* withTimeout: the RPC_CALL_TIMEOUT timer rejects with 'RPC call timeout'
OracleTimesOut(i) ==
    /\ srch[i].st = "awaiting"
    /\ oracle[i] \in {"silent", "any", "flaky"}
    /\ srch' = [srch EXCEPT ![i] = Stamp(srch, i,
                  ShrinkHigh(Log(srch[i], "timedOut", srch[i].mid, 0, 0), sp, i))]
    /\ UNCHANGED <<pc, req, nreq, rpc, chain, sp, oracle, result, http, cache, now, fail>>
    /\ UNCHANGED <<cacheMaxSize, cacheTtl, last, flight>>

-----------------------------------------------------------------------------
(* Error messages of the orchestrator and their classification *)

\* `${decimal string}` of a formatted amount
AmountText(str) ==
    IF str.frac = << >> THEN ToString(str.whole)
    ELSE LET RECURSIVE Digits(_)
             Digits(ds) == IF ds = << >> THEN "" ELSE ToString(Head(ds)) \o Digits(Tail(ds))
         IN ToString(str.whole) \o "." \o Digits(str.frac)

MsgInvalidAddress(position, address) ==
    <<"Invalid", "address", "at", "position", ToString(position), ":", address>>

MsgSameTokens == <<"Sell", "and", "buy", "tokens", "cannot", "be", "the", "same">>

MsgUnsupportedChainId(chainId) ==
    <<"Unsupported", "chain", "ID", ":", ToString(chainId)>>

MsgNoPool(sell, buy, name) ==
    <<"No", "liquidity", "pool", "found", "for", "pair", sell, "/", buy,
      "on", "chain", name>>

MsgPoolZeroReserves(sell, buy) ==
    <<"Liquidity", "pool", "for", "pair", sell, "/", buy, "has", "zero", "reserves">>

MsgInsufficientLiquidity(sell, buy, text0, text1) ==
    <<"Insufficient", "liquidity", "for", "reliable", "pricing", "in", "pair",
      sell, "/", buy, ".", "Reserves", ":", text0, "/", text1>>

MsgPoolDepth(sell, buy) ==
    <<"Pool", "depth", "too", "low", "for", "reliable", "pricing", "in", "pair",
      sell, "/", buy>>

MsgInvalidDecimals(decimals, token) ==
    <<"Invalid", "token", "decimals", ":", ToString(decimals), "for", "token", token>>

MsgInvalidContract(token) ==
    <<"Invalid", "token", "contract", ":", token, "is", "not", "a", "valid",
      "ERC20", "token">>

MsgRpcFailed(name) ==
    <<"RPC", "call", "failed", ":", "Cannot", "connect", "to", name, "network">>

MsgRequestTimeout(name) ==
    <<"Request", "timeout", ":", name, "network", "is", "slow", "or", "unavailable">>

\* what the provider rejects a read-only call with
RawCallException ==
    <<"call", "revert", "exception", "(", "code", "=", "CALL_EXCEPTION", ")">>
RawTimeout == <<"timeout", "(", "code", "=", "TIMEOUT", ")">>
RawNoNetwork ==
    <<"could", "not", "detect", "network", "(", "code", "=", "NETWORK_ERROR", ")">>

RawRpcErrors ==
    {[kind |-> "callException", message |-> RawCallException],
     [kind |-> "timeout", message |-> RawTimeout],
     [kind |-> "connect", message |-> RawNoNetwork]}

\* String.prototype.includes
Includes(message, pattern) ==
    \E k \in 0 .. (Len(message) - Len(pattern)) :
        SubSeq(message, k + 1, k + Len(pattern)) = pattern

CLIENT_ERROR_PATTERNS ==
    << <<"Invalid", "address">>,
       <<"No", "liquidity", "pool">>,
       <<"Unsupported", "chain">>,
       <<"Invalid", "token", "addresses">>,
       <<"Could", "not", "calculate", "quote">>,
       <<"Invalid", "token", "contract">>,
       <<"Invalid", "token", "decimals">>,
       <<"zero", "reserves">>,
       <<"not", "a", "valid", "ERC20", "token">> >>

NETWORK_ERROR_PATTERNS ==
    << <<"RPC", "call", "failed">>,
       <<"Request", "timeout">>,
       <<"CALL_EXCEPTION">>,
       <<"timeout">>,
       <<"Cannot", "connect", "to">>,
       <<"network", "is", "slow", "or", "unavailable">> >>

isClientError(message) ==
    \E k \in 1 .. Len(CLIENT_ERROR_PATTERNS) : Includes(message, CLIENT_ERROR_PATTERNS[k])

isNetworkError(message) ==
    \E k \in 1 .. Len(NETWORK_ERROR_PATTERNS) : Includes(message, NETWORK_ERROR_PATTERNS[k])

HTTP_OK == 200
HTTP_BAD_REQUEST == 400
HTTP_INTERNAL_SERVER_ERROR == 500
HTTP_SERVICE_UNAVAILABLE == 503

\* the catch block of router.get('/liquidity')
ErrorResponse(message) ==
    IF isClientError(message)
    THEN [status |-> HTTP_BAD_REQUEST, error |-> "Invalid request",
          message |-> message, body |-> Null, supportedChains |-> << >>]
    ELSE IF isNetworkError(message)
    THEN [status |-> HTTP_SERVICE_UNAVAILABLE, error |-> "Service unavailable",
          message |-> message, body |-> Null, supportedChains |-> << >>]
    ELSE [status |-> HTTP_INTERNAL_SERVER_ERROR, error |-> "Internal server error",
          message |-> message, body |-> Null, supportedChains |-> << >>]

-----------------------------------------------------------------------------
(* Query parameters, addresses and the chain registry *)

MISSING == "<undefined>"

isValidParam(param) == param # MISSING /\ param # ""

NaN == -999999

\* parseInt of the chainId texts the model sends
parseInt(text) ==
    CASE text = "1" -> 1 [] text = "56" -> 56 [] text = "999" -> 999
      [] text = "0" -> 0 [] text = "-1" -> -1 [] OTHER -> NaN

SupportedChainIdsEthereumOnly == <<1>>

\* CHAIN_CONFIGS, in Object.keys order (ascending integer keys)
SupportedChainIds == <<1, 56, 137, 42161>>

ChainName(chainId) ==
    CASE chainId = 1 -> "Ethereum" [] chainId = 56 -> "BSC"
      [] chainId = 137 -> "Polygon" [] OTHER -> "Arbitrum"

IsSupportedChainAny(chainId) == TRUE

IsSupportedChain(chainId) ==
    \E k \in 1 .. Len(SupportedChainIds) : SupportedChainIds[k] = chainId

toLowerCase(address) ==
    CASE address \in {"0xAA", "0xAa"} -> "0xaa"
      [] address \in {"0xBB", "0xBb"} -> "0xbb"
      [] OTHER -> address

\* ethers.utils.getAddress of a lower-case text: the checksummed address, or a throw
IsAddress(lower) == lower \in {"0xaa", "0xbb"}

getAddress(lower) == IF lower = "0xaa" THEN "0xAa" ELSE "0xBb"

toChecksumAddress(address) ==
    IF IsAddress(toLowerCase(address)) THEN Some(getAddress(toLowerCase(address))) ELSE Null

\* validateAndNormalizeAddresses(sellToken, buyToken): <<sell, buy>> or the thrown message
validateAndNormalizeAddresses(sellToken, buyToken) ==
    IF toChecksumAddress(sellToken) = Null
    THEN [ok |-> FALSE, message |-> MsgInvalidAddress(0, sellToken), tokens |-> << >>]
    ELSE IF toChecksumAddress(buyToken) = Null
    THEN [ok |-> FALSE, message |-> MsgInvalidAddress(1, buyToken), tokens |-> << >>]
    ELSE [ok |-> TRUE, message |-> << >>,
          tokens |-> <<toChecksumAddress(sellToken)[1], toChecksumAddress(buyToken)[1]>>]

NormalizedSell == toChecksumAddress(req.sellToken)[1]
NormalizedBuy == toChecksumAddress(req.buyToken)[1]
RequestChainId == parseInt(req.chainId)

-----------------------------------------------------------------------------
(* SimpleCache *)

CACHE_TTL == 30000
CACHE_MAX_SIZE == 1000

CacheIndexAbsent(c, key) == 0

CacheIndex(c, key) ==
    IF \E k \in 1 .. Len(c) : c[k].key = key
    THEN CHOOSE k \in 1 .. Len(c) : c[k].key = key
    ELSE 0

RemoveAt(c, k) == SubSeq(c, 1, k - 1) \o SubSeq(c, k + 1, Len(c))

IsExpiredAtTtl(entry, t, ttl) == t - entry.timestamp >= ttl

IsExpired(entry, t, ttl) == t - entry.timestamp > ttl

CacheGetSliding(c, key, t, ttl) ==
    LET k == CacheIndex(c, key)
    IN IF k = 0 THEN [cache |-> c, value |-> Null]
       ELSE IF IsExpired(c[k], t, ttl) THEN [cache |-> RemoveAt(c, k), value |-> Null]
       ELSE [cache |-> [c EXCEPT ![k].lastAccessed = t, ![k].timestamp = t],
             value |-> Some(c[k].data)]

\* SimpleCache.get: the cache afterwards and the value returned
CacheGet(c, key, t, ttl) ==
    LET k == CacheIndex(c, key)
    IN IF k = 0 THEN [cache |-> c, value |-> Null]
       ELSE IF IsExpired(c[k], t, ttl) THEN [cache |-> RemoveAt(c, k), value |-> Null]
       ELSE [cache |-> [c EXCEPT ![k].lastAccessed = t], value |-> Some(c[k].data)]

PurgeAll(c, t, ttl) == << >>

RECURSIVE PurgeExpired(_, _, _)
PurgeExpired(c, t, ttl) ==
    IF c = << >> THEN << >>
    ELSE IF IsExpired(Head(c), t, ttl) THEN PurgeExpired(Tail(c), t, ttl)
    ELSE <<Head(c)>> \o PurgeExpired(Tail(c), t, ttl)

\* position of the first entry of a stable ascending sort by lastAccessed
OldestIndex(c) ==
    CHOOSE k \in 1 .. Len(c) :
        \A j \in 1 .. Len(c) :
            \/ c[k].lastAccessed < c[j].lastAccessed
            \/ (c[k].lastAccessed = c[j].lastAccessed /\ k <= j)

RECURSIVE EvictOldest(_, _)
EvictOldest(c, n) ==
    IF n = 0 \/ c = << >> THEN c ELSE EvictOldest(RemoveAt(c, OldestIndex(c)), n - 1)

EvictionCountOne(maxSize) == 1

\* Math.max(1, Math.floor(maxSize * 0.25))
EvictionCount(maxSize) == IF maxSize \div 4 > 1 THEN maxSize \div 4 ELSE 1

makeRoomPurgeOnly(c, t, maxSize, ttl) == PurgeExpired(c, t, ttl)

\* SimpleCache.makeRoom
makeRoom(c, t, maxSize, ttl) ==
    LET live == PurgeExpired(c, t, ttl)
    IN IF Len(live) >= maxSize THEN EvictOldest(live, EvictionCount(maxSize)) ELSE live

CacheSetRoomAfter(c, key, data, t, maxSize, ttl) ==
    LET k == CacheIndex(c, key)
        entry == [key |-> key, data |-> data, timestamp |-> t, lastAccessed |-> t]
    IN IF k # 0 THEN [c EXCEPT ![k] = entry]
       ELSE IF Len(c) >= maxSize THEN makeRoom(Append(c, entry), t, maxSize, ttl)
       ELSE Append(c, entry)

\* SimpleCache.set
CacheSet(c, key, data, t, maxSize, ttl) ==
    LET k == CacheIndex(c, key)
        entry == [key |-> key, data |-> data, timestamp |-> t, lastAccessed |-> t]
    IN IF k # 0 THEN [c EXCEPT ![k] = entry]
       ELSE IF Len(c) >= maxSize THEN Append(makeRoom(c, t, maxSize, ttl), entry)
       ELSE Append(c, entry)

\* `${sellToken.toLowerCase()}-${buyToken.toLowerCase()}-${chainIdNum}`
CacheKey(sellToken, buyToken, chainIdNum) ==
    <<toLowerCase(sellToken), toLowerCase(buyToken), chainIdNum>>

-----------------------------------------------------------------------------
(* LiquidityService: getTokenReserves, getTokenDecimals, getLiquidityQuotes *)

MIN_TOKEN_DECIMALS == 0
MAX_TOKEN_DECIMALS == 77
DEPTH_DIVISOR == 1000
DEPTH_MULTIPLE == 10

Calls == {"getPair", "getReserves", "token0", "token1",
          "poolDecimals0", "poolDecimals1", "sellDecimals", "buyDecimals"}
PairDataCalls == {"getReserves", "token0", "token1"}
PoolDecimalsCalls == {"poolDecimals0", "poolDecimals1"}
QuoteDecimalsCalls == {"sellDecimals", "buyDecimals"}

NoChain == [exists |-> FALSE, token0 |-> NULL, token1 |-> NULL,
            reserve0 |-> 0, reserve1 |-> 0, decimals0 |-> 0, decimals1 |-> 0]
NoRequest == [sellToken |-> MISSING, buyToken |-> MISSING, chainId |-> MISSING]
NoParams == [reserveSell |-> 0, reserveBuy |-> 0,
             sellTokenDecimals |-> 0, buyTokenDecimals |-> 0]
NoResult == [kind |-> "none", message |-> << >>, value |-> Null]
NoResponse == [status |-> 0, error |-> NULL, message |-> << >>, body |-> Null,
               supportedChains |-> << >>]
NoFailure == [kind |-> "none", call |-> "none"]

\* no SimpleCache operation performed yet
NoOperation == [op |-> "none", key |-> NULL, arg |-> NULL, ret |-> Null, at |-> 0,
                before |-> << >>]

\* history: a cache operation and the cache it found
Operation(op, key, arg, ret) ==
    [op |-> op, key |-> key, arg |-> arg, ret |-> ret, at |-> now, before |-> cache]

\* the requests that can be in flight together
Slots == 1 .. MaxInFlight

IdleRequest == [pc |-> "idle", query |-> NoRequest, arrived |-> 0, completed |-> 0,
                cached |-> FALSE, status |-> 0, body |-> Null, owed |-> {}, live |-> Null]

NoFlight == [r \in Slots |-> IdleRequest]

\* the await each call belongs to
StageOf(c) ==
    CASE c = "getPair" -> "awaitPair"
      [] c \in PairDataCalls -> "awaitPairData"
      [] c \in PoolDecimalsCalls -> "awaitPoolDecimals"
      [] OTHER -> "awaitDecimals"

\* the token a decimals() call reads
TokenOf(c) ==
    CASE c = "poolDecimals0" -> chain.token0
      [] c = "poolDecimals1" -> chain.token1
      [] c = "sellDecimals" -> NormalizedSell
      [] OTHER -> NormalizedBuy

DecimalsOf(token) == IF token = chain.token0 THEN chain.decimals0 ELSE chain.decimals1

\* the catch block of getTokenDecimals
MapDecimalsError(message, token) ==
    IF Includes(message, <<"CALL_EXCEPTION">>) THEN MsgInvalidContract(token) ELSE message

\* the catch block of getTokenReserves
MapReservesError(message, name) ==
    IF Includes(message, <<"CALL_EXCEPTION">>) THEN MsgRpcFailed(name)
    ELSE IF Includes(message, <<"timeout">>) THEN MsgRequestTimeout(name)
    ELSE message

InvalidDecimalsAbove(decimals) == decimals > MAX_TOKEN_DECIMALS

InvalidDecimals(decimals) ==
    decimals < MIN_TOKEN_DECIMALS \/ decimals > MAX_TOKEN_DECIMALS

\* the message getLiquidityQuotes rejects with when call c failed with message
RejectionMessage(c, message) ==
    LET inner == IF c \in PoolDecimalsCalls \cup QuoteDecimalsCalls
                 THEN MapDecimalsError(message, TokenOf(c))
                 ELSE message
    IN IF c \in QuoteDecimalsCalls THEN inner
       ELSE MapReservesError(inner, ChainName(RequestChainId))

\* MIN_RESERVE_0 / MIN_RESERVE_1
MinReserve(decimals) ==
    LET absolute == ParseMilli(decimals)
        scaled   == Pow10(decimals) \div 1000
    IN IF absolute > scaled THEN absolute ELSE scaled

TooShallow(ch) ==
    ch.reserve0 \div DEPTH_DIVISOR < MinReserve(ch.decimals0) * DEPTH_MULTIPLE

BelowMinReserve(ch) ==
    \/ ch.reserve0 < MinReserve(ch.decimals0)
    \/ ch.reserve1 < MinReserve(ch.decimals1)

\* the checks of getTokenReserves once both pool-token decimals are known
LiquidityCheck(ch, sell, buy) ==
    IF ParseMilliThrows(ch.decimals0) \/ ParseMilliThrows(ch.decimals1)
    THEN [ok |-> FALSE, kind |-> "numericFault", message |-> MsgNumericFault]
    ELSE IF BelowMinReserve(ch)
    THEN [ok |-> FALSE, kind |-> "insufficientLiquidity",
          message |-> MsgInsufficientLiquidity(sell, buy,
                        AmountText(FormatUnits(ch.reserve0, ch.decimals0)),
                        AmountText(FormatUnits(ch.reserve1, ch.decimals1)))]
    ELSE IF TooShallow(ch)
    THEN [ok |-> FALSE, kind |-> "poolDepth", message |-> MsgPoolDepth(sell, buy)]
    ELSE [ok |-> TRUE, kind |-> "none", message |-> << >>]

isSellToken0Always(sell, ch) == TRUE

\* sellToken.toLowerCase() === token0.toLowerCase()
isSellToken0(sell, ch) == toLowerCase(sell) = toLowerCase(ch.token0)

\* the TokenReserves of getTokenReserves with the two decimals of getLiquidityQuotes
QuoteParams(sell, buy, ch) ==
    [reserveSell |-> IF isSellToken0(sell, ch) THEN ch.reserve0 ELSE ch.reserve1,
     reserveBuy  |-> IF isSellToken0(sell, ch) THEN ch.reserve1 ELSE ch.reserve0,
     sellTokenDecimals |-> IF sell = ch.token0 THEN ch.decimals0 ELSE ch.decimals1,
     buyTokenDecimals  |-> IF buy = ch.token0 THEN ch.decimals0 ELSE ch.decimals1]

\* quotes[i].status === 'fulfilled' ? quotes[i].value : null
QuoteOf(s) == IF s.st = "fulfilled" THEN s.best ELSE Null

\* quote.reason?.message || 'Unknown error'
ReasonText(s) == IF s.err = << >> THEN <<"Unknown", "error">> ELSE s.err

ErrorEntry(i, s) == <<PercentLabel(i), ":">> \o ReasonText(s)

RECURSIVE ErrorEntriesAll(_, _)
ErrorEntriesAll(ss, i) ==
    IF i > 3 THEN << >>
    ELSE <<ErrorEntry(i, ss[i])>> \o ErrorEntriesAll(ss, i + 1)

RECURSIVE ErrorEntries(_, _)
\* quotes.map(rejected ? `${level}%: ${message}` : null).filter(Boolean), from level i on
ErrorEntries(ss, i) ==
    IF i > 3 THEN << >>
    ELSE IF ss[i].st = "rejected"
    THEN <<ErrorEntry(i, ss[i])>> \o ErrorEntries(ss, i + 1)
    ELSE ErrorEntries(ss, i + 1)

RECURSIVE JoinComma(_)
\* errors.join(', ')
JoinComma(entries) ==
    IF entries = << >> THEN << >>
    ELSE IF Len(entries) = 1 THEN entries[1]
    ELSE entries[1] \o <<",">> \o JoinComma(Tail(entries))

MsgFailedQuotes == <<"Failed", "to", "calculate", "slippage", "quotes">>

CombinedMessage(ss) ==
    IF ErrorEntries(ss, 1) # << >>
    THEN MsgFailedQuotes \o <<".", "Errors", ":">> \o JoinComma(ErrorEntries(ss, 1))
    ELSE MsgFailedQuotes

AnyMissingAll(quote1, quote5, quote10) ==
    quote1 = Null /\ quote5 = Null /\ quote10 = Null

\* quote1 === null || quote5 === null || quote10 === null
AnyMissing(quote1, quote5, quote10) ==
    quote1 = Null \/ quote5 = Null \/ quote10 = Null

LiquidityResponseSwapped(sell, buy, chainId, quote1, quote5, quote10) ==
    [sellToken |-> sell, buyToken |-> buy, chainId |-> chainId,
     quotes |-> [slot \in {"1%", "5%", "10%"} |->
                    CASE slot = "1%" -> quote10 [] slot = "5%" -> quote5 [] OTHER -> quote1]]

LiquidityResponse(sell, buy, chainId, quote1, quote5, quote10) ==
    [sellToken |-> sell, buyToken |-> buy, chainId |-> chainId,
     quotes |-> [slot \in {"1%", "5%", "10%"} |->
                    CASE slot = "1%" -> quote1 [] slot = "5%" -> quote5 [] OTHER -> quote10]]

JoinReadyFirstRejection(ss) ==
    \/ \E i \in Levels : ss[i].st = "rejected"
    \/ \A i \in Levels : Settled(ss[i])

\* Promise.allSettled resolves
JoinReady(ss) == \A i \in Levels : Settled(ss[i])

-----------------------------------------------------------------------------
(* GET /liquidity *)

SellTokenInputs == {"0xaa", "zz", MISSING}
BuyTokenInputs == {"0xAA", "0xbb", "zz", ""}
ChainIdInputs == {MISSING, "abc", "999", "0", "-1", "1"}

Pool(t0, t1, r0, r1, d0, d1) ==
    [exists |-> TRUE, token0 |-> t0, token1 |-> t1,
     reserve0 |-> r0, reserve1 |-> r1, decimals0 |-> d0, decimals1 |-> d1]

\* what the factory and the pair can answer for the pair 0xAa / 0xBb
ChainStates ==
    {NoChain,
     Pool("0xAa", "0xBb", 0, 10000, 3, 3),
     Pool("0xAa", "0xBb", 10000, 10000, 78, 3),
     Pool("0xAa", "0xBb", 10000, 10000, 3, 2),
     Pool("0xAa", "0xBb", 10000, 5, 3, 4),
     Pool("0xAa", "0xBb", 5000, 10000, 3, 3),
     Pool("0xAa", "0xBb", 10000, 10000, 3, 3),
     Pool("0xBb", "0xAa", 10000, 500, 3, 3)}

RouterModes == {"cp", "errors", "silent"}

\* the handler's catch block after getLiquidityQuotes rejected
ServiceThrows(message, kind, call) ==
    /\ result' = [kind |-> "err", message |-> message, value |-> Null]
    /\ http' = ErrorResponse(message)
    /\ fail' = [kind |-> kind, call |-> call]
    /\ pc' = "done"

Reply(status, error, message, chains, kind) ==
    /\ result' = NoResult
    /\ http' = [status |-> status, error |-> error, message |-> message,
                body |-> Null, supportedChains |-> chains]
    /\ fail' = [kind |-> kind, call |-> "none"]
    /\ pc' = "done"

\* getLiquidityQuotes up to its first await
ServiceEntry(r) ==
    LET v == validateAndNormalizeAddresses(r.sellToken, r.buyToken)
    IN IF ~v.ok
       THEN ServiceThrows(v.message, "invalidAddress", "none") /\ rpc' = [c \in Calls |-> "idle"]
       ELSE IF v.tokens[1] = v.tokens[2]
       THEN ServiceThrows(MsgSameTokens, "identicalTokens", "none")
            /\ rpc' = [c \in Calls |-> "idle"]
       ELSE IF ~IsSupportedChain(parseInt(r.chainId))
       THEN ServiceThrows(MsgUnsupportedChainId(parseInt(r.chainId)), "unsupportedChain", "none")
            /\ rpc' = [c \in Calls |-> "idle"]
       ELSE /\ rpc' = [c \in Calls |-> IF c = "getPair" THEN "pending" ELSE "idle"]
            /\ pc' = "awaitPair"
            /\ result' = NoResult
            /\ http' = NoResponse
            /\ fail' = NoFailure

\* router.get('/liquidity') up to its first await
Request ==
    /\ pc \in {"idle", "done"}
    /\ nreq < MaxRequests
    /\ nreq' = nreq + 1
    /\ chain' = NoChain
    /\ sp' = NoParams
    /\ oracle' = [i \in Levels |-> "off"]
    /\ srch' = [i \in Levels |-> IdleSearch]
    /\ now' = now
    /\ UNCHANGED <<cacheMaxSize, cacheTtl, flight>>
    /\ \E s \in SellTokenInputs, b \in BuyTokenInputs, c \in ChainIdInputs :
         LET r == [sellToken |-> s, buyToken |-> b, chainId |-> c]
         IN /\ req' = r
            /\ IF ~isValidParam(s) \/ ~isValidParam(b) \/ ~isValidParam(c)
               THEN /\ Reply(HTTP_BAD_REQUEST, "Missing or invalid required parameters",
                             <<"sellToken", ",", "buyToken", ",", "and", "chainId",
                               "are", "required", "and", "must", "be", "strings">>,
                             << >>, "missingParameter")
                    /\ cache' = cache
                    /\ last' = last
                    /\ rpc' = [k \in Calls |-> "idle"]
               ELSE IF parseInt(c) = NaN
               THEN /\ Reply(HTTP_BAD_REQUEST, "Invalid chainId",
                             <<"chainId", "must", "be", "a", "valid", "number">>,
                             << >>, "invalidChainId")
                    /\ cache' = cache
                    /\ last' = last
                    /\ rpc' = [k \in Calls |-> "idle"]
               ELSE IF ~IsSupportedChain(parseInt(c))
               THEN /\ Reply(HTTP_BAD_REQUEST, "Unsupported chain",
                             <<"Chain", "ID", ToString(parseInt(c)), "is", "not", "supported">>,
                             [k \in 1 .. Len(SupportedChainIds) |->
                                 [chainId |-> SupportedChainIds[k],
                                  name |-> ChainName(SupportedChainIds[k])]],
                             "unsupportedChain")
                    /\ cache' = cache
                    /\ last' = last
                    /\ rpc' = [k \in Calls |-> "idle"]
               ELSE LET got == CacheGet(cache, CacheKey(s, b, parseInt(c)), now, cacheTtl)
                    IN /\ cache' = got.cache
                       /\ last' = Operation("get", CacheKey(s, b, parseInt(c)), NULL,
                                          got.value)
                       /\ IF got.value # Null
                          THEN /\ result' = NoResult
                               /\ http' = [status |-> HTTP_OK, error |-> NULL,
                                           message |-> << >>, body |-> got.value,
                                           supportedChains |-> << >>]
                               /\ fail' = NoFailure
                               /\ pc' = "done"
                               /\ rpc' = [k \in Calls |-> "idle"]
                          ELSE ServiceEntry(r)

RpcFailsCachingError(c) ==
    /\ pc = StageOf(c)
    /\ rpc[c] = "pending"
    /\ rpc' = [rpc EXCEPT ![c] = "failed"]
    /\ \E e \in RawRpcErrors : ServiceThrows(RejectionMessage(c, e.message), e.kind, c)
    /\ cache' = CacheSet(cache, CacheKey(req.sellToken, req.buyToken, RequestChainId),
                         LiquidityResponse(NormalizedSell, NormalizedBuy, RequestChainId,
                                           Null, Null, Null),
                         now, cacheMaxSize, cacheTtl)
    /\ UNCHANGED <<req, nreq, chain, sp, oracle, srch, now>>
    /\ last' = Operation("set", CacheKey(req.sellToken, req.buyToken, RequestChainId),
                         NULL, Null)
    /\ UNCHANGED <<cacheMaxSize, cacheTtl, flight>>

RpcFailsUnnoticed(c) ==
    /\ pc = StageOf(c)
    /\ rpc[c] = "pending"
    /\ rpc' = [rpc EXCEPT ![c] = "failed"]
    /\ UNCHANGED <<pc, result, http, fail>>
    /\ UNCHANGED <<req, nreq, chain, sp, oracle, srch, cache, now>>
    /\ UNCHANGED <<cacheMaxSize, cacheTtl, last, flight>>

\* a read-only call rejects
RpcFails(c) ==
    /\ pc = StageOf(c)
    /\ rpc[c] = "pending"
    /\ rpc' = [rpc EXCEPT ![c] = "failed"]
    /\ \E e \in RawRpcErrors : ServiceThrows(RejectionMessage(c, e.message), e.kind, c)
    /\ UNCHANGED <<req, nreq, chain, sp, oracle, srch, cache, now>>
    /\ UNCHANGED <<cacheMaxSize, cacheTtl, last, flight>>

Continue(stage, marked, issued) ==
    /\ rpc' = [c \in Calls |-> IF c \in issued THEN "pending" ELSE marked[c]]
    /\ pc' = stage
    /\ UNCHANGED <<result, http, fail>>

\* a read-only call resolves
RpcResponds(c) ==
    /\ pc = StageOf(c)
    /\ rpc[c] = "pending"
    /\ LET marked == [rpc EXCEPT ![c] = "ok"]
           name   == ChainName(RequestChainId)
       IN CASE c = "getPair" ->
                 /\ \E ch \in ChainStates :
                      /\ chain' = ch
                      /\ IF ~ch.exists
                         THEN /\ ServiceThrows(
                                   MapReservesError(MsgNoPool(NormalizedSell, NormalizedBuy, name), name),
                                   "noPool", c)
                              /\ rpc' = marked
                         ELSE Continue("awaitPairData", marked, PairDataCalls)
                 /\ UNCHANGED <<sp, oracle, srch>>
            [] c \in PairDataCalls ->
                 /\ IF \E d \in PairDataCalls : marked[d] # "ok"
                    THEN Continue(pc, marked, {})
                    ELSE IF chain.reserve0 = 0 \/ chain.reserve1 = 0
                    THEN /\ ServiceThrows(
                              MapReservesError(MsgPoolZeroReserves(NormalizedSell, NormalizedBuy), name),
                              "zeroReserves", c)
                         /\ rpc' = marked
                    ELSE Continue("awaitPoolDecimals", marked, PoolDecimalsCalls)
                 /\ UNCHANGED <<chain, sp, oracle, srch>>
            [] c \in PoolDecimalsCalls ->
                 /\ IF InvalidDecimals(DecimalsOf(TokenOf(c)))
                    THEN /\ ServiceThrows(
                              RejectionMessage(c, MsgInvalidDecimals(DecimalsOf(TokenOf(c)), TokenOf(c))),
                              "invalidDecimals", c)
                         /\ rpc' = marked
                    ELSE IF \E d \in PoolDecimalsCalls : marked[d] # "ok"
                    THEN Continue(pc, marked, {})
                    ELSE LET check == LiquidityCheck(chain, NormalizedSell, NormalizedBuy)
                         IN IF ~check.ok
                            THEN /\ ServiceThrows(MapReservesError(check.message, name),
                                                  check.kind, c)
                                 /\ rpc' = marked
                            ELSE Continue("awaitDecimals", marked, QuoteDecimalsCalls)
                 /\ UNCHANGED <<chain, sp, oracle, srch>>
            [] OTHER ->
                 /\ chain' = chain
                 /\ IF InvalidDecimals(DecimalsOf(TokenOf(c)))
                    THEN /\ ServiceThrows(
                              RejectionMessage(c, MsgInvalidDecimals(DecimalsOf(TokenOf(c)), TokenOf(c))),
                              "invalidDecimals", c)
                         /\ rpc' = marked
                         /\ UNCHANGED <<sp, oracle, srch>>
                    ELSE IF \E d \in QuoteDecimalsCalls : marked[d] # "ok"
                    THEN Continue(pc, marked, {}) /\ UNCHANGED <<sp, oracle, srch>>
                    ELSE /\ Continue("awaitSearches", marked, {})
                         /\ sp' = QuoteParams(NormalizedSell, NormalizedBuy, chain)
                         /\ oracle' \in [Levels -> RouterModes]
                         /\ srch' = LaunchAll(sp')
    /\ UNCHANGED <<req, nreq, cache, now>>
    /\ UNCHANGED <<cacheMaxSize, cacheTtl, last, flight>>

\* the three searches are joined, the quotes aggregated and the response sent
Join ==
    /\ pc = "awaitSearches"
    /\ JoinReady(srch)
    /\ LET quote1  == QuoteOf(srch[1])
           quote5  == QuoteOf(srch[2])
           quote10 == QuoteOf(srch[3])
           response == LiquidityResponse(NormalizedSell, NormalizedBuy, RequestChainId,
                                         quote1, quote5, quote10)
       IN IF AnyMissing(quote1, quote5, quote10)
          THEN /\ ServiceThrows(CombinedMessage(srch), "noQuote", "getAmountsOut")
               /\ cache' = cache
               /\ last' = last
          ELSE /\ result' = [kind |-> "ok", message |-> << >>, value |-> Some(response)]
               /\ cache' = CacheSet(cache,
                                    CacheKey(req.sellToken, req.buyToken, RequestChainId),
                                    response, now, cacheMaxSize, cacheTtl)
               /\ last' = Operation("set",
                                    CacheKey(req.sellToken, req.buyToken, RequestChainId),
                                    response, Null)
               /\ http' = [status |-> HTTP_OK, error |-> NULL, message |-> << >>,
                           body |-> Some(response), supportedChains |-> << >>]
               /\ fail' = NoFailure
               /\ pc' = "done"
    /\ UNCHANGED <<req, nreq, rpc, chain, sp, oracle, srch, now>>
    /\ UNCHANGED <<cacheMaxSize, cacheTtl, flight>>

Init ==
    /\ pc = "idle"
    /\ req = NoRequest
    /\ nreq = 0
    /\ rpc = [c \in Calls |-> "idle"]
    /\ chain = NoChain
    /\ sp = NoParams
    /\ oracle = [i \in Levels |-> "off"]
    /\ srch = [i \in Levels |-> IdleSearch]
    /\ result = NoResult
    /\ http = NoResponse
    /\ cache = << >>
    /\ now = 0
    /\ fail = NoFailure
    /\ cacheMaxSize = CACHE_MAX_SIZE
    /\ cacheTtl = CACHE_TTL
    /\ last = NoOperation
    /\ flight = NoFlight

Next ==
    \/ Request
    \/ \E c \in Calls : RpcResponds(c)
    \/ \E c \in Calls : RpcFails(c)
    \/ \E i \in Levels : OracleResponds(i)
    \/ \E i \in Levels : OracleFails(i)
    \/ \E i \in Levels : OracleTimesOut(i)
    \/ Join

Spec == Init /\ [][Next]_vars

-----------------------------------------------------------------------------
(* Fairness: timers fire, continuations run, and a router in mode "cp" or  *)
(* "errors" answers.  The read-only calls of getTokenReserves and          *)
(* getTokenDecimals are awaited without withTimeout, so nothing forces     *)
(* RpcResponds or RpcFails to happen.                                       *)

Fairness ==
    /\ WF_vars(Join)
    /\ \A i \in Levels : WF_vars(OracleTimesOut(i))
    /\ \A i \in Levels : WF_vars(OracleResponds(i))
    /\ \A i \in Levels : WF_vars(OracleFails(i))

FairSpec == Init /\ [][Next]_vars /\ Fairness

-----------------------------------------------------------------------------
(* Properties of getLiquidityQuotes and GET /liquidity *)

Launched == oracle[1] # "off"

\* C1: getLiquidityQuotes never returns a partial result: it returns a
\* response only when all three searches succeeded, and then every slot holds
\* a quote; when a search did not succeed the request fails with no response.
C1_AllOrNothing ==
    /\ result.kind = "ok" =>
          /\ \A i \in Levels : srch[i].st = "fulfilled"
          /\ \A slot \in {"1%", "5%", "10%"} : result.value[1].quotes[slot] # Null
          /\ http.status = HTTP_OK /\ http.body = result.value
    /\ (pc = "done" /\ Launched /\ \E i \in Levels : srch[i].st # "fulfilled") =>
          /\ result.kind = "err"
          /\ result.value = Null
          /\ http.body = Null

\* the request failed although some search succeeded
C1_Witness ==
    /\ pc = "done" /\ Launched
    /\ result.kind = "err"
    /\ \E i, j \in Levels : srch[i].st = "fulfilled" /\ srch[j].st = "rejected"

\* C4 as stated: every request that was started eventually completes, even
\* when an RPC call never responds.
C4_EveryRequestCompletes == (pc \notin {"idle", "done"}) ~> (pc = "done")

\* C5: the request completes only after all three searches have settled; a
\* settled search keeps its outcome and a search that fails leaves the other
\* two untouched.
C5_FullJoin ==
    [][/\ (pc = "awaitSearches" /\ pc' = "done") =>
             \A i \in Levels : Settled(srch[i])
       /\ (pc = "awaitSearches" /\ pc' = "awaitSearches") =>
             \A i \in Levels :
                /\ Settled(srch[i]) => srch'[i] = srch[i]
                /\ (srch[i].st # "rejected" /\ srch'[i].st = "rejected") =>
                      \A j \in Levels \ {i} : srch'[j] = srch[j]]_vars

\* the 1% search failed, the other two ran on and succeeded, then the request failed
C5_Witness ==
    /\ pc = "done" /\ Launched
    /\ srch[1].st = "rejected" /\ srch[1].calls > 0
    /\ srch[2].st = "fulfilled" /\ srch[3].st = "fulfilled"
    /\ srch[2].calls > 1 /\ srch[3].calls > 1

LevelTexts == <<"1%", "5%", "10%">>

ExpectedEntry(i) ==
    IF srch[i].st = "rejected" THEN << <<LevelTexts[i], ":">> \o srch[i].err >> ELSE << >>

ExpectedErrors == ExpectedEntry(1) \o ExpectedEntry(2) \o ExpectedEntry(3)

ExpectedCombinedMessage ==
    <<"Failed", "to", "calculate", "slippage", "quotes", ".", "Errors", ":">> \o
    (CASE Len(ExpectedErrors) = 1 -> ExpectedErrors[1]
       [] Len(ExpectedErrors) = 2 -> ExpectedErrors[1] \o <<",">> \o ExpectedErrors[2]
       [] OTHER -> ExpectedErrors[1] \o <<",">> \o ExpectedErrors[2] \o <<",">> \o ExpectedErrors[3])

\* C6: when at least one search fails the request fails with one message that
\* lists exactly the failed levels, in the order 1%, 5%, 10%, each as
\* '<level>%: <error text of that search>', joined by ', '.
C6_CombinedMessage ==
    (pc = "done" /\ Launched /\ \E i \in Levels : srch[i].st = "rejected") =>
        /\ result.kind = "err"
        /\ result.message = ExpectedCombinedMessage
        /\ http.message = ExpectedCombinedMessage

\* 1% and 10% failed, 5% succeeded
C6_Witness ==
    /\ pc = "done" /\ Launched
    /\ srch[1].st = "rejected" /\ srch[2].st = "fulfilled" /\ srch[3].st = "rejected"

DomainFailures ==
    {"noPool", "zeroReserves", "insufficientLiquidity", "poolDepth",
     "invalidDecimals", "noQuote"}

\* C7 as stated: every request that fails for a domain reason is answered 400.
C7_DomainFailures400 ==
    (pc = "done" /\ fail.kind \in DomainFailures) => http.status = HTTP_BAD_REQUEST

ValidationFailures ==
    {"invalidAddress", "identicalTokens", "unsupportedChain", "invalidChainId",
     "missingParameter"}

\* C8 as stated: every request that fails validation is answered with a 4xx status.
C8_ValidationFailures4xx ==
    (pc = "done" /\ fail.kind \in ValidationFailures) =>
        (http.status >= 400 /\ http.status <= 499)

RpcFailures == {"callException", "timeout", "connect"}

\* C9 as stated: a request that fails because an RPC call raised a call
\* exception, timed out or could not connect is answered 503, whichever call
\* it was (pair lookup, reserve read, decimals read or router simulation).
C9_RpcFailures503 ==
    /\ (pc = "done" /\ fail.kind \in RpcFailures) => http.status = HTTP_SERVICE_UNAVAILABLE
    /\ (pc = "done" /\ fail.kind = "noQuote"
          /\ \E i \in Levels : srch[i].st = "rejected" /\ oracle[i] \in {"errors", "silent"})
       => http.status = HTTP_SERVICE_UNAVAILABLE

-----------------------------------------------------------------------------
(* calculateSlippageQuote on its own: one call per level, one after another *)

SearchParams(rs, rb, ds, db) ==
    [reserveSell |-> rs, reserveBuy |-> rb,
     sellTokenDecimals |-> ds, buyTokenDecimals |-> db]

\* <<reserveSell, reserveBuy>> of pools a few base units deep
SmallPools == {<<0, 22>>, <<19, 0>>, <<1, 2>>, <<19, 2>>, <<19, 22>>, <<20, 2>>}

\* deeper pools, among them one whose 60% window is not exhausted by 15
\* halvings and one that pays out although reserveBuy * PRECISION_BASE is less
\* than reserveSell
LargePools == {<<20, 23>>, <<21, 24>>, <<19, 43>>, <<500, 10000>>,
               <<10000, 500>>, <<10000, 10000>>, <<60000, 1>>, <<60000, 60000>>,
               <<200000, 1>>, <<200000, 10>>}

\* every call-by-call router behaviour, on the small pools, one level at a time
AnyOracleInputs ==
    {<<SearchParams(rr[1], rr[2], ds, 3),
       [i \in Levels |-> IF i = l THEN "any" ELSE "off"]>> :
        rr \in SmallPools, ds \in {2, 3}, l \in Levels}

\* the deterministic constant-product router, on all three levels
ConstantProductInputs ==
    {<<SearchParams(rr[1], rr[2], ds, 3), [i \in Levels |-> "cp"]>> :
        rr \in SmallPools \cup LargePools, ds \in {3, 4}}

\* a constant-product router whose calls can also fail, time out or answer
\* zero, on a pool deep enough for searches of several iterations
FlakyOracleInputs ==
    {<<SearchParams(200, 220, 3, 3),
       [i \in Levels |-> IF i = l THEN "flaky" ELSE "off"]>> : l \in Levels}

\* a router that answers no call at all, on the deepest pool, one level at a time
SilentOracleInputs ==
    {<<SearchParams(200000, 1, 3, 3),
       [i \in Levels |-> IF i = l THEN "silent" ELSE "off"]>> : l \in Levels}

SearchInit ==
    /\ pc = "harness"
    /\ req = NoRequest
    /\ nreq = 0
    /\ rpc = [c \in Calls |-> "idle"]
    /\ chain = NoChain
    /\ \E in \in AnyOracleInputs \cup ConstantProductInputs \cup FlakyOracleInputs
                  \cup SilentOracleInputs :
         sp = in[1] /\ oracle = in[2]
    /\ srch = [i \in Levels |-> IdleSearch]
    /\ result = NoResult
    /\ http = NoResponse
    /\ cache = << >>
    /\ now = 0
    /\ fail = NoFailure
    /\ cacheMaxSize = CACHE_MAX_SIZE
    /\ cacheTtl = CACHE_TTL
    /\ last = NoOperation
    /\ flight = NoFlight

SearchCall(i) ==
    /\ pc = "harness"
    /\ oracle[i] # "off"
    /\ srch[i].st = "idle"
    /\ \A j \in Levels : (j < i /\ oracle[j] # "off") => Settled(srch[j])
    /\ srch' = [srch EXCEPT ![i] = Stamp(srch, i, NewSearch(sp, i))]
    /\ UNCHANGED <<pc, req, nreq, rpc, chain, sp, oracle, result, http, cache, now, fail>>
    /\ UNCHANGED <<cacheMaxSize, cacheTtl, last, flight>>

SearchNext ==
    \E i \in Levels :
        \/ SearchCall(i)
        \/ OracleResponds(i)
        \/ OracleFails(i)
        \/ OracleTimesOut(i)

SearchSpec == SearchInit /\ [][SearchNext]_vars

\* The caller makes each of its calls; setTimeout fires, so a pending
\* withTimeout ends at the latest with the timer; a router in mode "cp"
\* answers before the timer.  Nothing makes a router in mode "any", "flaky"
\* or "silent" answer.
SearchFairness ==
    /\ \A i \in Levels : WF_vars(SearchCall(i))
    /\ \A i \in Levels : WF_vars(OracleTimesOut(i))
    /\ \A i \in Levels : WF_vars(oracle[i] = "cp" /\ OracleResponds(i))

SearchFairSpec == SearchInit /\ [][SearchNext]_vars /\ SearchFairness

-----------------------------------------------------------------------------
(* Properties of calculateSlippageQuote *)

SellUnits(i) == UnitsOf(srch[i].best[1].sellAmount, sp.sellTokenDecimals)
BuyUnits(i) == UnitsOf(srch[i].best[1].buyAmount, sp.buyTokenDecimals)

\* price impact, in basis points, of the quote search i returned
RealizedImpactBP(i) ==
    TruncDiv((SpotPrice(sp) - (BuyUnits(i) * PRECISION_BASE) \div SellUnits(i)) * BP_SCALE,
             SpotPrice(sp))

RealizedDiffBP(i) == Abs(RealizedImpactBP(i) - TargetBP(i))

PositiveReserves == sp.reserveSell > 0 /\ sp.reserveBuy > 0

\* C2 as stated: with positive reserves a returned quote is always within
\* 50 basis points of the target.
C2_NeverOutsideTolerance ==
    \A i \in Levels :
        (PositiveReserves /\ srch[i].st = "fulfilled") => RealizedDiffBP(i) <= TOLERANCE_BP

\* C2 amended: with positive reserves a search returns a quote within 50 basis
\* points of the target, or, when no evaluated candidate was within tolerance,
\* the closest evaluated candidate; it fails with the no-quote error exactly
\* when no candidate was evaluated, and with parseUnits' numeric fault when the
\* sell token has fewer than 3 decimals.
C2_WithinToleranceOrClosest ==
    \A i \in Levels : PositiveReserves =>
        /\ srch[i].st = "fulfilled" =>
              \/ RealizedDiffBP(i) <= TOLERANCE_BP
              \/ /\ srch[i].seenMin > TOLERANCE_BP
                 /\ RealizedDiffBP(i) = srch[i].seenMin
        /\ srch[i].st = "rejected" =>
              \/ /\ srch[i].err = MsgNumericFault
                 /\ sp.sellTokenDecimals < MIN_TRADE_FRACTION_DIGITS
                 /\ srch[i].calls = 0
              \/ /\ srch[i].err = MsgNoQuote(i)
                 /\ sp.sellTokenDecimals >= MIN_TRADE_FRACTION_DIGITS
                 /\ srch[i].seenMin = INFINITY

\* a search returned a best-effort quote outside the tolerance after
\* evaluating at least two candidates
C2_Witness ==
    \E i \in Levels :
        /\ PositiveReserves
        /\ srch[i].st = "fulfilled"
        /\ srch[i].calls >= 2
        /\ RealizedDiffBP(i) > TOLERANCE_BP

\* C3: with a zero reserve on either side the search fails with the
\* zero-reserves error and has issued no router call.
C3_ZeroReservesFailFast ==
    \A i \in Levels :
        (srch[i].st # "idle" /\ (sp.reserveSell = 0 \/ sp.reserveBuy = 0)) =>
            /\ srch[i].st = "rejected"
            /\ srch[i].err = MsgSearchZeroReserves
            /\ srch[i].calls = 0

C3_Witness ==
    \E i \in Levels :
        /\ sp.reserveSell > 0 /\ sp.reserveBuy = 0
        /\ srch[i].st = "rejected"

\* C10 as stated: with the deterministic constant-product router, quotes for
\* two targets t1 < t2 on the same reserves have sell(t1) <= sell(t2).
C10_MonotoneSellAmounts ==
    \A a, b \in Levels :
        (/\ a < b
         /\ oracle[a] = "cp" /\ oracle[b] = "cp"
         /\ srch[a].st = "fulfilled" /\ srch[b].st = "fulfilled")
        => SellUnits(a) <= SellUnits(b)

-----------------------------------------------------------------------------
(* SimpleCache on its own: get, set and clear applied in any order while   *)
(* the clock advances.  A cache is either explored from its construction   *)
(* (capacity 0 .. MaxCapacity), or it is a full cache of WideCapacity      *)
(* entries, the smallest capacity whose 25% is more than one entry, to     *)
(* which one operation is applied.                                         *)

CacheKeys(n) == {"k" \o ToString(i) : i \in 1 .. n}
CacheValues == {"v1", "v2"}
TtlInputs == {0, 1}

\* SimpleCache.size
size(c) == Len(c)

\* <<timestamp, lastAccessed>> of the entries of a full cache read at time 2
\* with ttl 1: expired, live, live and read again
StampInputs == {<<0, 0>>, <<1, 1>>, <<1, 2>>}

FullCaches ==
    {[k \in 1 .. WideCapacity |->
        [key |-> "k" \o ToString(k), data |-> "v1",
         timestamp |-> st[k][1], lastAccessed |-> st[k][2]]] :
     st \in [1 .. WideCapacity -> StampInputs]}

CacheInit ==
    /\ pc = "cache"
    /\ req = NoRequest
    /\ nreq = 0
    /\ rpc = [c \in Calls |-> "idle"]
    /\ chain = NoChain
    /\ sp = NoParams
    /\ oracle = [i \in Levels |-> "off"]
    /\ srch = [i \in Levels |-> IdleSearch]
    /\ result = NoResult
    /\ http = NoResponse
    /\ fail = NoFailure
    /\ last = NoOperation
    /\ flight = NoFlight
    /\ \/ /\ cacheMaxSize \in 0 .. MaxCapacity
          /\ cacheTtl \in TtlInputs
          /\ cache = << >>
          /\ now = 0
       \/ /\ cacheMaxSize = WideCapacity
          /\ cacheTtl = 1
          /\ cache \in FullCaches
          /\ now = 2

Wide == cacheMaxSize = WideCapacity

KeyInputs == IF Wide THEN CacheKeys(WideCapacity + 1) ELSE CacheKeys(MaxCapacity + 1)

CacheReady == pc = "cache" /\ (Wide => last.op = "none")

get(k) ==
    /\ CacheReady
    /\ LET got == CacheGet(cache, k, now, cacheTtl)
       IN /\ cache' = got.cache
          /\ last' = Operation("get", k, NULL, got.value)
    /\ UNCHANGED <<pc, req, nreq, rpc, chain, sp, oracle, srch, result, http, now, fail,
                   cacheMaxSize, cacheTtl, flight>>

set(k, v) ==
    /\ CacheReady
    /\ cache' = CacheSet(cache, k, v, now, cacheMaxSize, cacheTtl)
    /\ last' = Operation("set", k, v, Null)
    /\ UNCHANGED <<pc, req, nreq, rpc, chain, sp, oracle, srch, result, http, now, fail,
                   cacheMaxSize, cacheTtl, flight>>

clear ==
    /\ CacheReady
    /\ cache' = << >>
    /\ last' = Operation("clear", NULL, NULL, Null)
    /\ UNCHANGED <<pc, req, nreq, rpc, chain, sp, oracle, srch, result, http, now, fail,
                   cacheMaxSize, cacheTtl, flight>>

TickSweeping ==
    /\ CacheReady
    /\ now < MaxTime
    /\ now' = now + 1
    /\ cache' = PurgeExpired(cache, now + 1, cacheTtl)
    /\ last' = Operation("tick", NULL, NULL, Null)
    /\ UNCHANGED <<pc, req, nreq, rpc, chain, sp, oracle, srch, result, http, fail,
                   cacheMaxSize, cacheTtl, flight>>

\* time passes; the cache has no timer of its own
Tick ==
    /\ CacheReady
    /\ now < MaxTime
    /\ now' = now + 1
    /\ last' = Operation("tick", NULL, NULL, Null)
    /\ UNCHANGED <<pc, req, nreq, rpc, chain, sp, oracle, srch, result, http, cache, fail,
                   cacheMaxSize, cacheTtl, flight>>

CacheNext ==
    \/ \E k \in KeyInputs : get(k)
    \/ \E k \in KeyInputs, v \in CacheValues : set(k, v)
    \/ clear
    \/ Tick

CacheSpec == CacheInit /\ [][CacheNext]_vars

-----------------------------------------------------------------------------
(* Properties of SimpleCache *)

Stored(c, k) == \E i \in 1 .. Len(c) : c[i].key = k

PositionOf(c, k) == CHOOSE i \in 1 .. Len(c) : c[i].key = k

\* the operation was a set of a key that was not stored
NewKeySet == last.op = "set" /\ ~Stored(last.before, last.key)

\* the operation was a set of a key that was stored
OverwritingSet == last.op = "set" /\ Stored(last.before, last.key)

\* more than cacheTtl had elapsed, when the operation ran, since the entry was set
PastTtl(entry) == last.at - entry.timestamp > cacheTtl

\* positions of the entries that were stored before the operation and unexpired
LiveBefore == {i \in 1 .. Len(last.before) : ~PastTtl(last.before[i])}

\* positions of the unexpired entries the operation removed
Evicted == {i \in LiveBefore : ~Stored(cache, last.before[i].key)}

Max(a, b) == IF a > b THEN a ELSE b
Min(a, b) == IF a < b THEN a ELSE b

\* C13: for every prior cache state and every capacity (0 included), a get
\* of k performed right after set(k, v), with no time elapsed, returns v: the
\* set never evicts the key it inserts.
C13_GetAfterSet ==
    last.op = "set" =>
        /\ Stored(cache, last.key)
        /\ now = last.at
        /\ CacheGet(cache, last.key, now, cacheTtl).value = Some(last.arg)

\* a new key set into a cache of capacity 0 that held another entry
C13_Witness ==
    /\ NewKeySet
    /\ cacheMaxSize = 0
    /\ Len(last.before) = 1
    /\ CacheGet(cache, last.key, now, cacheTtl).value = Some(last.arg)

\* C14: a get of a stored key returns absent and deletes the entry when more
\* than timeToLive has elapsed since the key's most recent set, and returns the
\* value, keeping the entry, when at most timeToLive has elapsed (exactly
\* timeToLive included); every set stamps the entry with the time of the set.
C14_ExpiryOnGet ==
    /\ (last.op = "get" /\ Stored(last.before, last.key)) =>
          LET e == last.before[PositionOf(last.before, last.key)]
          IN IF last.at - e.timestamp > cacheTtl
             THEN last.ret = Null /\ ~Stored(cache, last.key)
             ELSE last.ret = Some(e.data) /\ Stored(cache, last.key)
    /\ last.op = "set" => cache[PositionOf(cache, last.key)].timestamp = last.at

\* a get exactly timeToLive after the set returned the value
C14_Witness ==
    /\ last.op = "get" /\ Stored(last.before, last.key)
    /\ cacheTtl > 0
    /\ last.at - last.before[PositionOf(last.before, last.key)].timestamp = cacheTtl
    /\ last.ret # Null

\* C15: when set inserts a new key into a cache at capacity, every entry past
\* its time-to-live is purged; if that brings the size below capacity, no
\* unexpired entry is evicted by that set.
C15_PurgeExpiredFirst ==
    (NewKeySet /\ Len(last.before) >= cacheMaxSize) =>
        /\ \A i \in 1 .. Len(last.before) :
              PastTtl(last.before[i]) => ~Stored(cache, last.before[i].key)
        /\ Cardinality(LiveBefore) < cacheMaxSize =>
              \A i \in LiveBefore :
                  /\ Stored(cache, last.before[i].key)
                  /\ cache[PositionOf(cache, last.before[i].key)] = last.before[i]

\* a full cache held expired and unexpired entries; the purge made room
C15_Witness ==
    /\ NewKeySet /\ Len(last.before) >= cacheMaxSize
    /\ LiveBefore # {}
    /\ Cardinality(LiveBefore) < Len(last.before)
    /\ Cardinality(LiveBefore) < cacheMaxSize
    /\ Len(cache) = Cardinality(LiveBefore) + 1

\* the entries a new-key set removed are the least recently accessed ones
EvictedAreLeastRecent ==
    \A e \in Evicted : \A i \in LiveBefore \ Evicted :
        ~(last.before[i].lastAccessed < last.before[e].lastAccessed)

\* the purge of expired entries left the cache at or above capacity
StillFull == NewKeySet /\ Cardinality(LiveBefore) >= cacheMaxSize

\* C16 as stated: a new-key set that finds the cache still at or above
\* capacity after the purge evicts max(1, floor(25% of the stored entries))
\* entries, the least recently accessed ones.
C16_EvictsQuarter ==
    StillFull =>
        /\ Cardinality(Evicted) = Max(1, Cardinality(LiveBefore) \div 4)
        /\ EvictedAreLeastRecent

\* C16 amended: a new-key set that finds the cache still at or above capacity
\* after the purge evicts max(1, floor(25% of the capacity)) entries, or every
\* entry when fewer are stored (none when the purge left the cache empty, as
\* with capacity 0); the evicted entries are the least recently accessed ones.
C16_EvictsQuarterOfCapacity ==
    StillFull =>
        /\ Cardinality(Evicted) =
              Min(Cardinality(LiveBefore), Max(1, cacheMaxSize \div 4))
        /\ EvictedAreLeastRecent

\* a full cache of WideCapacity unexpired entries, read at different times,
\* lost more than one entry
C16_Witness ==
    /\ StillFull
    /\ Cardinality(Evicted) > 1
    /\ \E i, j \in LiveBefore : last.before[i].lastAccessed < last.before[j].lastAccessed
    /\ \E e \in Evicted : \E i \in LiveBefore \ Evicted :
          last.before[i].lastAccessed = last.before[e].lastAccessed

\* C17: set(k, v) on a stored key replaces the value in place, resets both
\* timestamps to now, evicts no entry and leaves size() unchanged, even at
\* capacity; the entry then lives a full timeToLive from the overwrite.
C17_OverwriteInPlace ==
    OverwritingSet =>
        LET at == PositionOf(last.before, last.key)
        IN /\ size(cache) = size(last.before)
           /\ \A i \in 1 .. Len(cache) : i # at => cache[i] = last.before[i]
           /\ cache[at] = [key |-> last.key, data |-> last.arg,
                           timestamp |-> last.at, lastAccessed |-> last.at]
           /\ \A t \in last.at .. last.at + cacheTtl :
                 CacheGet(cache, last.key, t, cacheTtl).value = Some(last.arg)
           /\ CacheGet(cache, last.key, last.at + cacheTtl + 1, cacheTtl).value = Null

\* an expired entry was overwritten in a full cache that held another expired entry
C17_Witness ==
    /\ OverwritingSet
    /\ Len(last.before) >= cacheMaxSize /\ Len(last.before) >= 2
    /\ \A i \in 1 .. Len(last.before) : PastTtl(last.before[i])
    /\ last.before[PositionOf(last.before, last.key)].data # last.arg

\* C18: expiry is lazy: the passage of time alone removes no entry; an entry
\* leaves the cache, and the count of size(), only through a get of its own
\* key after its time-to-live, a new-key set on a cache at capacity, or clear.
C18_LazyExpiry ==
    /\ last.op = "tick" => cache = last.before /\ size(cache) = size(last.before)
    /\ \A i \in 1 .. Len(last.before) :
          ~Stored(cache, last.before[i].key) =>
              \/ last.op = "get" /\ last.key = last.before[i].key /\ PastTtl(last.before[i])
              \/ NewKeySet /\ Len(last.before) >= cacheMaxSize
              \/ last.op = "clear"

\* time passed and an entry past its time-to-live is still stored and counted
C18_Witness ==
    /\ last.op = "tick"
    /\ size(cache) > 0
    /\ \E i \in 1 .. Len(cache) : now - cache[i].timestamp > cacheTtl

\* C19: a get hit changes only the lastAccessed of the entry read: its
\* timestamp and value, and every other entry, stay as they were, so the
\* entry's expiry time is not postponed.
C19_HitTouchesLastAccessedOnly ==
    (last.op = "get" /\ last.ret # Null) =>
        LET at == PositionOf(last.before, last.key)
        IN /\ Len(cache) = Len(last.before)
           /\ \A i \in 1 .. Len(cache) : i # at => cache[i] = last.before[i]
           /\ cache[at] = [last.before[at] EXCEPT !.lastAccessed = last.at]

\* an entry read after it was set, next to another entry
C19_Witness ==
    /\ last.op = "get" /\ last.ret # Null
    /\ Len(cache) >= 2
    /\ cache[PositionOf(cache, last.key)].lastAccessed
          > cache[PositionOf(cache, last.key)].timestamp

\* C38: after any sequence of get, set and clear operations on a cache with
\* capacity >= 1, the number of stored entries never exceeds the capacity.
C38_SizeWithinCapacity ==
    cacheMaxSize >= 1 => Len(cache) <= cacheMaxSize

\* a set of a new key found the cache full of live entries and left it full
C38_Witness ==
    /\ cacheMaxSize >= 1
    /\ last.op = "set"
    /\ \A k \in 1 .. Len(last.before) : last.before[k].key # last.key
    /\ Len(last.before) = cacheMaxSize
    /\ \A k \in 1 .. Len(last.before) : last.at - last.before[k].timestamp <= cacheTtl
    /\ Len(cache) = cacheMaxSize

-----------------------------------------------------------------------------
(* GET /liquidity with several requests in flight together.  Each request  *)
(* is the handler of router.get('/liquidity'); getLiquidityQuotes is its   *)
(* environment and resolves with the quotes of the moment or rejects.  The *)
(* cache holds ScaledCacheSize entries in place of CACHE_CONFIG.MAX_SIZE.  *)

QueryInputs ==
    {[sellToken |-> "0xaa", buyToken |-> "0xbb", chainId |-> c] : c \in {"1", "56", "abc"}}

\* what getLiquidityQuotes can resolve with for one pair, as the pool moves
Snapshots == {"quotes A", "quotes B"}

\* what getLiquidityQuotes can reject with
Rejections == {MsgRequestTimeout("Ethereum")}

KeyOfPair(q) == CacheKey(q.sellToken, q.buyToken, 0)

KeyOf(q) == CacheKey(q.sellToken, q.buyToken, parseInt(q.chainId))

\* history: the responses of the requests for the same key that succeeded
\* through the orchestrator at most cacheTtl ago
OwedTo(q) ==
    {flight[r].body : r \in {x \in Slots :
        /\ flight[x].pc = "done" /\ flight[x].status = HTTP_OK /\ ~flight[x].cached
        /\ flight[x].query = q
        /\ now - flight[x].completed <= cacheTtl}}

\* history: the data stored under the key and at most cacheTtl old
LiveFor(q) ==
    IF \E i \in 1 .. Len(cache) :
          cache[i].key = KeyOf(q) /\ now - cache[i].timestamp <= cacheTtl
    THEN Some(cache[CHOOSE i \in 1 .. Len(cache) : cache[i].key = KeyOf(q)].data)
    ELSE Null

HandlerInit ==
    /\ pc = "handler"
    /\ req = NoRequest
    /\ nreq = 0
    /\ rpc = [c \in Calls |-> "idle"]
    /\ chain = NoChain
    /\ sp = NoParams
    /\ oracle = [i \in Levels |-> "off"]
    /\ srch = [i \in Levels |-> IdleSearch]
    /\ result = NoResult
    /\ http = NoResponse
    /\ fail = NoFailure
    /\ last = NoOperation
    /\ flight = NoFlight
    /\ cacheMaxSize = ScaledCacheSize
    /\ cacheTtl = CACHE_TTL
    /\ cache = << >>
    /\ now = 0

\* router.get('/liquidity') up to its await of getLiquidityQuotes
Arrive(r) ==
    /\ pc = "handler"
    /\ flight[r].pc = "idle"
    /\ \A x \in Slots : x < r => flight[x].pc # "idle"
    /\ \E q \in QueryInputs :
         LET answered(status, body, hit) ==
                 [IdleRequest EXCEPT !.pc = "done", !.query = q, !.arrived = now,
                                     !.completed = now, !.cached = hit,
                                     !.status = status, !.body = body]
         IN IF \/ ~isValidParam(q.sellToken) \/ ~isValidParam(q.buyToken)
               \/ ~isValidParam(q.chainId)
               \/ parseInt(q.chainId) = NaN
               \/ ~IsSupportedChain(parseInt(q.chainId))
            THEN /\ flight' = [flight EXCEPT ![r] = answered(HTTP_BAD_REQUEST, Null, FALSE)]
                 /\ cache' = cache
            ELSE LET got == CacheGet(cache, KeyOf(q), now, cacheTtl)
                 IN /\ cache' = got.cache
                    /\ flight' = [flight EXCEPT ![r] =
                          IF got.value # Null
                          THEN [answered(HTTP_OK, got.value, TRUE) EXCEPT
                                   !.owed = OwedTo(q), !.live = LiveFor(q)]
                          ELSE [IdleRequest EXCEPT !.pc = "awaitQuotes", !.query = q,
                                   !.arrived = now, !.owed = OwedTo(q),
                                   !.live = LiveFor(q)]]
    /\ UNCHANGED <<pc, req, nreq, rpc, chain, sp, oracle, srch, result, http, now, fail,
                   cacheMaxSize, cacheTtl, last>>

QuotesResolveUncached(r) ==
    /\ pc = "handler"
    /\ flight[r].pc = "awaitQuotes"
    /\ \E quotes \in Snapshots :
         flight' = [flight EXCEPT ![r].pc = "done", ![r].completed = now,
                                  ![r].status = HTTP_OK, ![r].body = Some(quotes)]
    /\ UNCHANGED <<pc, req, nreq, rpc, chain, sp, oracle, srch, result, http, cache, now,
                   fail, cacheMaxSize, cacheTtl, last>>

\* getLiquidityQuotes resolves: cache.set(cacheKey, quotes); res.json(quotes)
QuotesResolve(r) ==
    /\ pc = "handler"
    /\ flight[r].pc = "awaitQuotes"
    /\ \E quotes \in Snapshots :
         /\ cache' = CacheSet(cache, KeyOf(flight[r].query), quotes, now,
                              cacheMaxSize, cacheTtl)
         /\ flight' = [flight EXCEPT ![r].pc = "done", ![r].completed = now,
                                     ![r].status = HTTP_OK, ![r].body = Some(quotes)]
    /\ UNCHANGED <<pc, req, nreq, rpc, chain, sp, oracle, srch, result, http, now, fail,
                   cacheMaxSize, cacheTtl, last>>

\* getLiquidityQuotes rejects: the handler's catch block
QuotesReject(r) ==
    /\ pc = "handler"
    /\ flight[r].pc = "awaitQuotes"
    /\ \E message \in Rejections :
         flight' = [flight EXCEPT ![r].pc = "done", ![r].completed = now,
                                  ![r].status = ErrorResponse(message).status]
    /\ UNCHANGED <<pc, req, nreq, rpc, chain, sp, oracle, srch, result, http, cache, now,
                   fail, cacheMaxSize, cacheTtl, last>>

\* time passes, one time-to-live at a time
ClockAdvances ==
    /\ pc = "handler"
    /\ now < MaxTicks * CACHE_TTL
    /\ now' = now + CACHE_TTL
    /\ UNCHANGED <<pc, req, nreq, rpc, chain, sp, oracle, srch, result, http, cache, fail,
                   cacheMaxSize, cacheTtl, last, flight>>

HandlerNext ==
    \/ \E r \in Slots : Arrive(r)
    \/ \E r \in Slots : QuotesResolve(r)
    \/ \E r \in Slots : QuotesReject(r)
    \/ ClockAdvances

HandlerSpec == HandlerInit /\ [][HandlerNext]_vars

-----------------------------------------------------------------------------
(* Properties of the cached GET /liquidity *)

Overlapped(a, b) ==
    /\ flight[a].arrived <= flight[b].completed
    /\ flight[b].arrived <= flight[a].completed

\* C11 as stated: once a request for a key has succeeded, every identical
\* request arriving within the cache TTL returns the identical response
\* without invoking the orchestrator.
C11_RepeatsReturnIdentical ==
    \A r \in Slots :
        (flight[r].pc # "idle" /\ flight[r].owed # {}) =>
            /\ flight[r].cached
            /\ \A body \in flight[r].owed : flight[r].body = body

\* C11 amended: a request that arrives while the cache holds an entry for its
\* key that is at most TTL old is answered at once with the stored response,
\* without invoking the orchestrator; every response served from the cache is
\* the response of an earlier identical request that succeeded at most TTL
\* before.  (The stored response can be replaced by that of an overlapping
\* identical request and can be evicted to make room for another key.)
C11_HitWhileStored ==
    \A r \in Slots :
        /\ (flight[r].pc # "idle" /\ flight[r].live # Null) =>
              /\ flight[r].pc = "done"
              /\ flight[r].cached
              /\ flight[r].status = HTTP_OK
              /\ flight[r].body = flight[r].live
        /\ flight[r].cached =>
              /\ flight[r].pc = "done" /\ flight[r].completed = flight[r].arrived
              /\ flight[r].body \in flight[r].owed

\* a request arriving exactly one TTL after the first one succeeded was served from the cache
C11_Witness ==
    \E a, r \in Slots :
        /\ flight[a].pc = "done" /\ ~flight[a].cached /\ flight[a].status = HTTP_OK
        /\ flight[r].cached
        /\ flight[r].query = flight[a].query
        /\ flight[r].arrived = flight[a].completed + CACHE_TTL
        /\ flight[r].body = flight[a].body

\* C12 as stated: once two identical requests that were in flight at the same
\* time, both missed the cache and both ran the orchestration have completed
\* successfully, the cache holds an entry for the key for the next TTL.
C12_CacheHoldsEntry ==
    \A a, b \in Slots :
        (/\ a # b /\ Overlapped(a, b)
         /\ flight[a].query = flight[b].query
         /\ flight[a].pc = "done" /\ flight[a].status = HTTP_OK /\ ~flight[a].cached
         /\ flight[b].pc = "done" /\ flight[b].status = HTTP_OK /\ ~flight[b].cached
         /\ now - flight[a].completed <= cacheTtl
         /\ now - flight[b].completed <= cacheTtl) =>
        \E i \in 1 .. Len(cache) : cache[i].key = KeyOf(flight[a].query)

\* C12 amended: two identical requests in flight at the same time can both
\* miss the cache and both run the orchestration; whenever a request completes
\* successfully through the orchestrator the cache holds, right afterwards,
\* its response under the key with a fresh timestamp (the later completion
\* replaces the earlier one), so the key is memoized until the entry expires
\* or is evicted to make room for another key.
C12_EventualMemoization ==
    [][\A r \in Slots :
          (flight[r].pc = "awaitQuotes" /\ flight'[r].pc = "done"
             /\ flight'[r].status = HTTP_OK) =>
          \E i \in 1 .. Len(cache') :
              /\ cache'[i].key = KeyOf(flight[r].query)
              /\ <<cache'[i].data>> = flight'[r].body
              /\ cache'[i].timestamp = now]_vars

\* two identical requests overlapped, both missed the cache and both ran the
\* orchestrator; a later identical request was served the second response
C12_Witness ==
    \E a, b, c \in Slots :
        /\ a # b /\ Overlapped(a, b)
        /\ flight[a].query = flight[b].query /\ flight[c].query = flight[a].query
        /\ flight[a].pc = "done" /\ flight[a].status = HTTP_OK /\ ~flight[a].cached
        /\ flight[b].pc = "done" /\ flight[b].status = HTTP_OK /\ ~flight[b].cached
        /\ flight[a].arrived < flight[a].completed
        /\ flight[a].completed <= flight[b].completed
        /\ flight[a].body # flight[b].body
        /\ flight[c].cached /\ flight[c].arrived >= flight[b].completed
        /\ flight[c].body = flight[b].body

-----------------------------------------------------------------------------
(* LiquidityService.getLiquidityQuotes called directly, as its unit tests  *)
(* do, with requests the route would have turned away.                     *)

ServiceInputs ==
    {[sellToken |-> s, buyToken |-> b, chainId |-> c] :
        s \in {"0xaa", "zz"}, b \in {"0xAA", "0xbb", "zz"}, c \in {"1", "999"}}

ServiceInit ==
    /\ pc = "service"
    /\ req = NoRequest
    /\ nreq = 0
    /\ rpc = [c \in Calls |-> "idle"]
    /\ chain = NoChain
    /\ sp = NoParams
    /\ oracle = [i \in Levels |-> "off"]
    /\ srch = [i \in Levels |-> IdleSearch]
    /\ result = NoResult
    /\ http = NoResponse
    /\ cache = << >>
    /\ now = 0
    /\ fail = NoFailure
    /\ cacheMaxSize = CACHE_MAX_SIZE
    /\ cacheTtl = CACHE_TTL
    /\ last = NoOperation
    /\ flight = NoFlight

\* getLiquidityQuotes(request) up to its first await
ServiceCall ==
    /\ pc = "service"
    /\ \E r \in ServiceInputs :
         /\ req' = r
         /\ ServiceEntry(r)
    /\ nreq' = nreq + 1
    /\ UNCHANGED <<chain, sp, oracle, srch, cache, now, cacheMaxSize, cacheTtl, last, flight>>

ServiceNext ==
    \/ ServiceCall
    \/ \E c \in Calls : RpcResponds(c)
    \/ \E c \in Calls : RpcFails(c)
    \/ \E i \in Levels : OracleResponds(i)
    \/ \E i \in Levels : OracleFails(i)
    \/ \E i \in Levels : OracleTimesOut(i)
    \/ Join

ServiceSpec == ServiceInit /\ [][ServiceNext]_vars

-----------------------------------------------------------------------------
(* Properties of the validation in getLiquidityQuotes *)

Malformed(address) == address \notin {"0xaa", "0xAA", "0xAa", "0xbb", "0xBB", "0xBb"}

SameAddress(a, b) ==
    \/ {a, b} \subseteq {"0xaa", "0xAA", "0xAa"}
    \/ {a, b} \subseteq {"0xbb", "0xBB", "0xBb"}

\* the validation failure the request must meet first, "none" for a valid request
FirstFailure(r) ==
    IF Malformed(r.sellToken) \/ Malformed(r.buyToken) THEN "invalidAddress"
    ELSE IF SameAddress(r.sellToken, r.buyToken) THEN "identicalTokens"
    ELSE IF r.chainId \notin {"1", "56", "137", "42161"} THEN "unsupportedChain"
    ELSE "none"

\* C20: a request that fails validation inside getLiquidityQuotes fails on
\* the first of: malformed address, identical normalized tokens, unsupported
\* chain; it has then failed before any RPC call was issued.
C20_ValidationBeforeRpc ==
    (pc # "service" /\ FirstFailure(req) # "none") =>
        /\ pc = "done"
        /\ result.kind = "err"
        /\ fail.kind = FirstFailure(req)
        /\ \A c \in Calls : rpc[c] = "idle"
        /\ chain = NoChain
        /\ \A i \in Levels : srch[i].calls = 0

\* identical tokens on an unsupported chain: the identical-tokens failure wins
C20_Witness ==
    /\ pc = "done"
    /\ req.sellToken = "0xaa" /\ req.buyToken = "0xAA" /\ req.chainId = "999"
    /\ fail.kind = "identicalTokens"
    /\ result.message = MsgSameTokens

-----------------------------------------------------------------------------
(* Properties of the iterations of calculateSlippageQuote *)

\* the iterations of search i that ended as kind
Iterations(i, kinds) == {k \in 1 .. Len(srch[i].trace) : srch[i].trace[k].kind \in kinds}

\* |priceImpactBP - targetImpactBP| of iteration k of search i
DiffOf(i, k) ==
    Abs(srch[i].trace[k].impact
          - (CASE i = 1 -> 100 [] i = 2 -> 500 [] OTHER -> 1000))

\* low, high, bestResult and i as iteration k of search i left them
After(i, k) ==
    IF k < Len(srch[i].trace) THEN srch[i].trace[k + 1]
    ELSE [i |-> srch[i].i, low |-> srch[i].low, high |-> srch[i].high,
          best |-> srch[i].best]

\* C24: if no iteration of a search lands within tolerance but at least one
\* candidate was evaluated, the returned quote is that of the evaluated
\* candidate with the smallest |priceImpactBP - targetImpactBP|, the earliest
\* such candidate on ties.
C24_ClosestCandidateReturned ==
    \A i \in Levels :
        (/\ srch[i].st = "fulfilled"
         /\ \A k \in Iterations(i, {"accepted", "evaluated"}) : DiffOf(i, k) > 50) =>
        LET evaluated == Iterations(i, {"accepted", "evaluated"})
            closest == CHOOSE k \in evaluated :
                          \A j \in evaluated :
                              \/ DiffOf(i, k) < DiffOf(i, j)
                              \/ DiffOf(i, k) = DiffOf(i, j) /\ k <= j
        IN /\ evaluated # {}
           /\ srch[i].best = <<[sellAmount |-> FormatUnits(srch[i].trace[closest].mid,
                                                          sp.sellTokenDecimals),
                                buyAmount |-> FormatUnits(srch[i].trace[closest].out,
                                                         sp.buyTokenDecimals)]>>

\* a search returned the earlier of two equally close candidates, none of
\* them within tolerance, and the later one would have been another quote
C24_Witness ==
    \E i \in Levels :
        /\ srch[i].st = "fulfilled"
        /\ Iterations(i, {"accepted"}) = {}
        /\ \E k, j \in Iterations(i, {"evaluated"}) :
             /\ k < j
             /\ DiffOf(i, k) = DiffOf(i, j)
             /\ \A m \in Iterations(i, {"evaluated"}) : DiffOf(i, k) <= DiffOf(i, m)
             /\ srch[i].trace[k].mid # srch[i].trace[j].mid
             /\ srch[i].best[1].sellAmount
                  = FormatUnits(srch[i].trace[k].mid, sp.sellTokenDecimals)

\* C27: as soon as an iteration's price impact is within 50 basis points of
\* the target the search stops: that iteration is the last one, its candidate
\* is the returned quote and no further oracle call is issued.
C27_AcceptStopsSearch ==
    \A i \in Levels :
        \A k \in Iterations(i, {"accepted", "evaluated"}) :
            DiffOf(i, k) <= 50 =>
                /\ k = Len(srch[i].trace)
                /\ srch[i].st = "fulfilled"
                /\ srch[i].best = <<[sellAmount |-> FormatUnits(srch[i].trace[k].mid,
                                                               sp.sellTokenDecimals),
                                     buyAmount |-> FormatUnits(srch[i].trace[k].out,
                                                              sp.buyTokenDecimals)]>>
                /\ srch[i].calls
                     = Cardinality(Iterations(i, {"accepted", "evaluated", "zero",
                                                  "threw", "rejected", "timedOut"}))

\* a search stopped on a candidate within tolerance after a candidate outside
\* it, with iterations and interval left
C27_Witness ==
    \E i \in Levels :
        /\ srch[i].st = "fulfilled"
        /\ Iterations(i, {"evaluated"}) # {}
        /\ Iterations(i, {"accepted"}) = {Len(srch[i].trace)}
        /\ srch[i].i < 14
        /\ srch[i].low < srch[i].high
        /\ srch[i].best # srch[i].trace[Len(srch[i].trace)].best

\* the target of search i in basis points
TargetOf(i) == CASE i = 1 -> 100 [] i = 2 -> 500 [] OTHER -> 1000

\* C28: after an evaluated candidate outside tolerance the interval is narrowed
\* toward the target: if its price impact is below the target then
\* low = mid + 1 and high is unchanged, otherwise high = mid - 1 and low is
\* unchanged; in every iteration low <= mid <= high, and high - low strictly
\* decreases from each iteration to the next.
C28_IntervalNarrows ==
    \A i \in Levels :
        \A k \in 1 .. Len(srch[i].trace) :
            LET it == srch[i].trace[k]
            IN /\ it.low <= it.mid /\ it.mid <= it.high
               /\ it.kind # "accepted" =>
                     After(i, k).high - After(i, k).low < it.high - it.low
               /\ (it.kind = "evaluated" /\ it.impact < TargetOf(i)) =>
                     After(i, k).low = it.mid + 1 /\ After(i, k).high = it.high
               /\ (it.kind = "evaluated" /\ it.impact >= TargetOf(i)) =>
                     After(i, k).high = it.mid - 1 /\ After(i, k).low = it.low

\* a search raised low after one candidate and lowered high after another
C28_Witness ==
    \E i \in Levels :
        \E k, j \in Iterations(i, {"evaluated"}) :
            /\ srch[i].trace[k].impact < TargetOf(i)
            /\ srch[i].trace[j].impact > TargetOf(i)
            /\ After(i, k).low = srch[i].trace[k].mid + 1
            /\ After(i, j).high = srch[i].trace[j].mid - 1

\* the iterations of search i that called the oracle
Called(i) ==
    Iterations(i, {"accepted", "evaluated", "zero", "threw", "rejected", "timedOut"})

\* C29: the oracle is never called with a trade size of 0 or of at least half
\* the sell-side reserve: an iteration with such a mid only lowers high to
\* mid - 1.
C29_NoCallAtZeroOrHalfReserve ==
    \A i \in Levels :
        /\ \A k \in Called(i) :
              srch[i].trace[k].mid > 0 /\ 2 * srch[i].trace[k].mid < sp.reserveSell
        /\ srch[i].st = "awaiting" =>
              srch[i].mid > 0 /\ 2 * srch[i].mid < sp.reserveSell
        /\ srch[i].calls = Cardinality(Called(i))
                             + (IF srch[i].st = "awaiting" THEN 1 ELSE 0)
        /\ \A k \in 1 .. Len(srch[i].trace) :
              LET it == srch[i].trace[k]
              IN (it.mid = 0 \/ 2 * it.mid >= sp.reserveSell) =>
                    /\ it.kind = "skipped"
                    /\ After(i, k).high = it.mid - 1
                    /\ After(i, k).low = it.low
                    /\ After(i, k).best = it.best
                    /\ After(i, k).i = it.i + 1

\* after two oracle calls a search reached a mid of at least half the
\* reserve and passed it over, lowering high, without another call
C29_Witness ==
    \E i \in Levels :
        \E b \in Iterations(i, {"skipped"}) :
            /\ 2 * srch[i].trace[b].mid >= sp.reserveSell
            /\ After(i, b).high = srch[i].trace[b].mid - 1
            /\ Cardinality({a \in Called(i) : a < b}) = 2
            /\ srch[i].calls = 2

C25_NoQuoteIffNoCandidate ==
    \A i \in Levels :
        (PositiveReserves /\ Settled(srch[i])) =>
            /\ (srch[i].st = "rejected" /\ srch[i].err = MsgNoQuote(i))
                  <=> (Iterations(i, {"accepted", "evaluated"}) = {})
            /\ (Iterations(i, {"accepted", "evaluated"}) # {}) => srch[i].st = "fulfilled"

\* C26: an oracle call at trade size mid that fails, times out or returns a
\* zero output does not abort the search: the search sets high = mid - 1,
\* leaves low and the best candidate so far unchanged, and goes on to the next
\* iteration.
C26_FailureShrinksHigh ==
    \A i \in Levels :
        \A k \in Iterations(i, {"rejected", "timedOut", "zero"}) :
            /\ After(i, k).high = srch[i].trace[k].mid - 1
            /\ After(i, k).low = srch[i].trace[k].low
            /\ After(i, k).best = srch[i].trace[k].best
            /\ After(i, k).i = srch[i].trace[k].i + 1
            /\ srch[i].st = "rejected" =>
                  /\ srch[i].err = MsgNoQuote(i)
                  /\ k < Len(srch[i].trace) \/ After(i, k).low > After(i, k).high
                       \/ After(i, k).i >= 15

\* a search kept its candidate through a timed-out call and a zero output,
\* evaluated another candidate afterwards and returned a quote
C26_Witness ==
    \E i \in Levels :
        /\ srch[i].st = "fulfilled"
        /\ \E a \in Iterations(i, {"evaluated"}), b \in Iterations(i, {"timedOut"}),
              c \in Iterations(i, {"zero", "rejected"}),
              d \in Iterations(i, {"evaluated", "accepted"}) :
                a < b /\ b < d /\ a < c /\ c < d

\* C31: every search run terminates, returning a quote or failing, even if
\* the router never responds to any of its calls: a pending call that is not
\* answered is ended by its timeout, and the timeout counts as a failed
\* iteration (one more iteration done, high lowered to mid - 1).
C31_SearchTerminates ==
    /\ \A i \in Levels : (oracle[i] # "off") ~> Settled(srch[i])
    /\ [][\A i \in Levels :
            (oracle[i] = "silent" /\ srch[i].st = "awaiting" /\ srch'[i] # srch[i]) =>
                LET n == Len(srch[i].trace) + 1
                IN /\ Len(srch'[i].trace) >= n
                   /\ srch'[i].trace[n].kind = "timedOut"
                   /\ srch'[i].trace[n].mid = srch[i].mid
                   /\ srch'[i].i > srch[i].i
                   /\ srch'[i].high < srch[i].mid
                   /\ srch'[i].low = srch[i].low
                   /\ srch'[i].best = srch[i].best]_vars

\* a search whose router answered none of its 15 calls has failed
C31_Witness ==
    \E i \in Levels :
        /\ oracle[i] = "silent"
        /\ srch[i].st = "rejected"
        /\ srch[i].calls = 15
        /\ \A k \in Called(i) : srch[i].trace[k].kind = "timedOut"

\* C32: every quote a search returns has a sell amount of at least 0.001
\* units of the sell token, at most reserveSell * p / 100 (p = 60 for the 10%
\* target, 20 for the others) and strictly below half of reserveSell.
C32_SellAmountInWindow ==
    \A i \in Levels :
        srch[i].st = "fulfilled" =>
            /\ SellUnits(i) >= Pow10(sp.sellTokenDecimals - 3)
            /\ SellUnits(i) <= (sp.reserveSell * (IF i = 3 THEN 60 ELSE 20)) \div 100
            /\ 2 * SellUnits(i) < sp.reserveSell

\* a returned quote that sells exactly the smallest amount the window allows,
\* and one that sells exactly the largest
C32_Witness ==
    \E i \in Levels :
        /\ srch[i].st = "fulfilled"
        /\ \/ SellUnits(i) = Pow10(sp.sellTokenDecimals - 3)
           \/ SellUnits(i) = (sp.reserveSell * (IF i = 3 THEN 60 ELSE 20)) \div 100

\* C33 as stated: for strictly positive reserves the fixed-point spot price
\* is strictly positive whenever the router paid out, so the price-impact
\* division is defined in every iteration and is never the reason an
\* iteration is counted as failed.
C33_SpotPricePositive ==
    \A i \in Levels :
        PositiveReserves =>
            \A k \in Called(i) :
                /\ srch[i].trace[k].kind # "threw"
                /\ srch[i].trace[k].out > 0 =>
                      (sp.reserveBuy * PRECISION_BASE) \div sp.reserveSell > 0

-----------------------------------------------------------------------------
(* Properties of the fetches of getLiquidityQuotes *)

\* what getTokenReserves and getTokenDecimals throw when a call of theirs
\* rejects, on chain 1
FetchErrors ==
    {<<"RPC", "call", "failed", ":", "Cannot", "connect", "to", "Ethereum", "network">>,
     <<"Request", "timeout", ":", "Ethereum", "network", "is", "slow", "or", "unavailable">>,
     <<"could", "not", "detect", "network", "(", "code", "=", "NETWORK_ERROR", ")">>,
     <<"timeout", "(", "code", "=", "TIMEOUT", ")">>} \cup
    {<<"Invalid", "token", "contract", ":", t, "is", "not", "a", "valid", "ERC20", "token">> :
        t \in {"0xAa", "0xBb"}}

\* C37: if the reserve fetch or either decimals fetch fails, the request
\* fails immediately with that error: no slippage search is started and no
\* router simulation call is issued for that request.
C37_FetchFailureAborts ==
    /\ \A c \in Calls :
          rpc[c] = "failed" =>
              /\ pc = "done"
              /\ fail.call = c
              /\ result.kind = "err"
              /\ result.message \in FetchErrors
              /\ http.message = result.message
              /\ http.body = Null
    /\ (pc = "done" /\ result.kind = "err" /\ fail.call \in Calls) =>
          /\ \A i \in Levels : srch[i].st = "idle" /\ srch[i].calls = 0
          /\ \A i \in Levels : oracle[i] = "off"

\* a decimals fetch of the requested tokens failed while the other one was
\* still pending, and the request is over
C37_Witness ==
    /\ pc = "done"
    /\ \E c, d \in QuoteDecimalsCalls : rpc[c] = "failed" /\ rpc[d] = "pending"
    /\ \A i \in Levels : srch[i].st = "idle"

-----------------------------------------------------------------------------
(* Properties of the cache writes of GET /liquidity *)

\* the stored entries without their lastAccessed stamps
Contents(c) == [k \in 1 .. Len(c) |-> <<c[k].key, c[k].data, c[k].timestamp>>]

Complete(response) == \A slot \in {"1%", "5%", "10%"} : response.quotes[slot] # <<>>

\* C39: the cache is written only after a fully successful orchestration: a
\* request that ends in any error adds or replaces no cache entry, so no
\* failure is ever stored in the cache or served from it to a later request.
C39_CacheWrittenOnlyOnSuccess ==
    /\ [](\A k \in 1 .. Len(cache) : Complete(cache[k].data))
    /\ []((pc = "done" /\ http.status = 200) => Complete(http.body[1]))
    /\ [][/\ (pc' = "done" /\ http'.status >= 400) =>
               /\ Contents(cache') = Contents(cache)
               /\ last'.op # "set" \/ last' = last
          /\ (Contents(cache') # Contents(cache) \/ (last'.op = "set" /\ last' # last)) =>
               /\ pc = "awaitSearches" /\ pc' = "done"
               /\ \A i \in Levels : srch[i].st = "fulfilled"
               /\ result'.kind = "ok"
               /\ http'.status = 200]_vars

\* the second request missed the cache, ran the whole orchestration and
\* failed at the join of the searches; the cache is still empty
C39_Witness ==
    /\ pc = "done"
    /\ nreq = 2
    /\ fail.kind = "noQuote"
    /\ http.status >= 400
    /\ last.op = "get" /\ last.ret = <<>>
    /\ cache = <<>>

-----------------------------------------------------------------------------
(* Properties of the aggregation of the three searches *)

\* C23: whatever the order in which the three concurrent searches complete,
\* the response's '1%', '5%' and '10%' slots hold the results of the searches
\* for targets 0.01, 0.05 and 0.10 respectively.
C23_SlotsByFixedIndex ==
    result.kind = "ok" =>
        /\ result.value[1].quotes["1%"] = srch[1].best
        /\ result.value[1].quotes["5%"] = srch[2].best
        /\ result.value[1].quotes["10%"] = srch[3].best
        /\ \A i \in Levels : srch[i].st = "fulfilled" /\ srch[i].best # Null

\* the 10% search completed first and the 1% search last, with three
\* different quotes
C23_Witness ==
    /\ result.kind = "ok"
    /\ srch[3].order = 1 /\ srch[2].order = 2 /\ srch[1].order = 3
    /\ srch[1].best # srch[2].best /\ srch[2].best # srch[3].best
    /\ srch[1].best # srch[3].best

-----------------------------------------------------------------------------
(* Properties of the chain check of GET /liquidity *)

RegisteredChains ==
    {[chainId |-> 1, name |-> "Ethereum"], [chainId |-> 56, name |-> "BSC"],
     [chainId |-> 137, name |-> "Polygon"], [chainId |-> 42161, name |-> "Arbitrum"]}

UnregisteredChainTexts == {"999", "0", "-1"}

\* C22: a GET /liquidity request (with all three parameters present) whose
\* chainId is numeric but not registered is answered 400 "Unsupported chain"
\* with a supportedChains list holding exactly the registered chains, and
\* neither the cache nor the orchestrator is touched for it.
C22_UnsupportedChain400 ==
    [][(/\ nreq' = nreq + 1
        /\ req'.chainId \in UnregisteredChainTexts
        /\ isValidParam(req'.sellToken) /\ isValidParam(req'.buyToken)) =>
       /\ pc' = "done"
       /\ http'.status = 400
       /\ http'.error = "Unsupported chain"
       /\ Len(http'.supportedChains) = Cardinality(RegisteredChains)
       /\ {http'.supportedChains[k] : k \in 1 .. Len(http'.supportedChains)}
             = RegisteredChains
       /\ cache' = cache /\ last' = last
       /\ result' = NoResult
       /\ \A c \in Calls : rpc'[c] = "idle"]_vars

\* a request for chain -1 was turned away while the cache held the response
\* of an earlier request, stored by the last cache operation
C22_Witness ==
    /\ pc = "done"
    /\ req.chainId = "-1"
    /\ http.status = 400 /\ http.error = "Unsupported chain"
    /\ Len(cache) = 1
    /\ last.op = "set"

-----------------------------------------------------------------------------
(* LiquidityService.getTokenReserves from the pair's answers on, and the   *)
(* decimals of the two requested tokens, up to the launch of the searches: *)
(* the request sells 0xaa for 0xbb, the pair holds the two tokens in       *)
(* either order, with reserves and decimals around the limits of the       *)
(* liquidity checks.                                                       *)

ReserveInputs == {0, 1, 10, 11, 9999, 10000, 100000}

ReservePools ==
    {Pool(t[1], t[2], r0, r1, d0, d1) :
        t \in {<<"0xAa", "0xBb">>, <<"0xBb", "0xAa">>},
        r0 \in ReserveInputs, r1 \in ReserveInputs,
        d0 \in {2, 3, 4}, d1 \in {2, 3, 4}}

ReservesInit ==
    /\ pc = "awaitPairData"
    /\ req = [sellToken |-> "0xaa", buyToken |-> "0xbb", chainId |-> "1"]
    /\ nreq = 1
    /\ rpc = [c \in Calls |-> IF c = "getPair" THEN "ok"
                             ELSE IF c \in PairDataCalls THEN "pending" ELSE "idle"]
    /\ chain \in ReservePools
    /\ sp = NoParams
    /\ oracle = [i \in Levels |-> "off"]
    /\ srch = [i \in Levels |-> IdleSearch]
    /\ result = NoResult
    /\ http = NoResponse
    /\ fail = NoFailure
    /\ cache = << >>
    /\ now = 0
    /\ cacheMaxSize = CACHE_MAX_SIZE
    /\ cacheTtl = CACHE_TTL
    /\ last = NoOperation
    /\ flight = NoFlight

ReservesNext ==
    \E c \in Calls \ {"getPair"} :
        \/ RpcResponds(c)
        \/ RpcFails(c)

ReservesSpec == ReservesInit /\ [][ReservesNext]_vars

-----------------------------------------------------------------------------
(* Properties of the liquidity checks of getTokenReserves *)

\* the reserve does not exceed max(0.001 token units, 10^decimals / 1000);
\* with fewer than 3 decimals that floor is below one base unit and every
\* positive reserve exceeds it
AtOrBelowFloor(reserve, decimals) ==
    IF decimals >= 3 THEN reserve <= Pow10(decimals - 3) ELSE reserve <= 0

PoolAccepted == pc \in {"awaitDecimals", "awaitSearches"}

PoolDecimalsKnown == rpc["poolDecimals0"] = "ok" /\ rpc["poolDecimals1"] = "ok"

\* C34 as stated: a pool is accepted only if each of its two reserves
\* strictly exceeds its floor; a reserve equal to or below its floor makes the
\* request fail with the insufficient-liquidity error.
C34_ReservesExceedFloor ==
    /\ PoolAccepted =>
          /\ ~AtOrBelowFloor(chain.reserve0, chain.decimals0)
          /\ ~AtOrBelowFloor(chain.reserve1, chain.decimals1)
    /\ (PoolDecimalsKnown
          /\ \/ AtOrBelowFloor(chain.reserve0, chain.decimals0)
             \/ AtOrBelowFloor(chain.reserve1, chain.decimals1)) =>
          /\ pc = "done"
          /\ result.kind = "err"
          /\ result.message[1] = "Insufficient"

\* the pool reserve and the decimals of the requested sell token 0xaa
SellSideReserve == IF chain.token0 = "0xAa" THEN chain.reserve0 ELSE chain.reserve1
SellSideDecimals == IF chain.token0 = "0xAa" THEN chain.decimals0 ELSE chain.decimals1

RejectedAsShallow ==
    /\ pc = "done"
    /\ result.kind = "err"
    /\ SubSeq(result.message, 1, 4) = <<"Pool", "depth", "too", "low">>

\* C35 as stated: the depth check is applied to the sell-side reserve
\* whichever of token0 / token1 the requested sell token is: a pool whose
\* reserves are both above their floors is rejected as too shallow exactly
\* when 0.1% of the sell-side reserve does not exceed ten times the sell
\* token's minimum reserve floor.
C35_DepthOfSellSide ==
    (/\ PoolDecimalsKnown
     /\ chain.decimals0 >= 3 /\ chain.decimals1 >= 3
     /\ ~AtOrBelowFloor(chain.reserve0, chain.decimals0)
     /\ ~AtOrBelowFloor(chain.reserve1, chain.decimals1)) =>
        (RejectedAsShallow <=>
            SellSideReserve <= 1000 * 10 * Pow10(SellSideDecimals - 3))

\* C36: in both orientations of the pair (the requested sell token is token0,
\* or is token1) the reserves handed to the searches are ordered so that
\* reserveSell is the pool reserve of the requested sell token and reserveBuy
\* the pool reserve of the requested buy token.
C36_ReservesOrderedBySellToken ==
    pc = "awaitSearches" =>
        /\ chain.token0 = "0xAa" =>
              sp.reserveSell = chain.reserve0 /\ sp.reserveBuy = chain.reserve1
        /\ chain.token1 = "0xAa" =>
              sp.reserveSell = chain.reserve1 /\ sp.reserveBuy = chain.reserve0
        /\ \A i \in Levels : srch[i].st = "awaiting" =>
              srch[i].mid = (Pow10(sp.sellTokenDecimals - 3)
                             + (SellSideReserve * (IF i = 3 THEN 60 ELSE 20)) \div 100) \div 2

\* the searches run on a pair whose token1 is the requested sell token and
\* whose two reserves differ
C36_Witness ==
    /\ pc = "awaitSearches"
    /\ chain.token1 = "0xAa"
    /\ chain.reserve0 = 100000 /\ chain.reserve1 = 10000
    /\ sp.reserveSell = 10000
    /\ \A i \in Levels : srch[i].st = "awaiting"

-----------------------------------------------------------------------------
(* LiquidityService.getTokenDecimals for the two tokens of a pair, as        *)
(* getTokenReserves awaits them, over every value decimals() can answer.     *)

\* what decimals() can answer: -1 as a mock can, 0 up to beyond the limit
DecimalsInputs == -1 .. MaxDecimals

DecimalsInit ==
    /\ pc = "decimals"
    /\ req = [sellToken |-> "0xaa", buyToken |-> "0xbb", chainId |-> "1"]
    /\ nreq = 1
    /\ rpc = [c \in Calls |-> IF c \in PoolDecimalsCalls THEN "pending"
                             ELSE IF c \in QuoteDecimalsCalls THEN "idle" ELSE "ok"]
    /\ \E d0, d1 \in DecimalsInputs :
         chain = Pool("0xAa", "0xBb", 10000, 10000, d0, d1)
    /\ sp = NoParams
    /\ oracle = [i \in Levels |-> "off"]
    /\ srch = [i \in Levels |-> IdleSearch]
    /\ result = NoResult
    /\ http = NoResponse
    /\ fail = NoFailure
    /\ cache = << >>
    /\ now = 0
    /\ cacheMaxSize = CACHE_MAX_SIZE
    /\ cacheTtl = CACHE_TTL
    /\ last = NoOperation
    /\ flight = NoFlight

\* token.decimals() resolves: the range check, then return decimals
DecimalsResolves(c) ==
    /\ pc = "decimals"
    /\ rpc[c] = "pending"
    /\ rpc' = [rpc EXCEPT ![c] = "ok"]
    /\ LET decimals == DecimalsOf(TokenOf(c))
       IN IF InvalidDecimals(decimals)
          THEN ServiceThrows(RejectionMessage(c, MsgInvalidDecimals(decimals, TokenOf(c))),
                             "invalidDecimals", c)
          ELSE /\ result' = [kind |-> "ok", message |-> << >>, value |-> Some(decimals)]
               /\ fail' = [kind |-> "none", call |-> c]
               /\ UNCHANGED <<pc, http>>
    /\ UNCHANGED <<req, nreq, chain, sp, oracle, srch, cache, now,
                   cacheMaxSize, cacheTtl, last, flight>>

\* token.decimals() rejects: the catch block of getTokenDecimals
DecimalsRejects(c) ==
    /\ pc = "decimals"
    /\ rpc[c] = "pending"
    /\ rpc' = [rpc EXCEPT ![c] = "failed"]
    /\ \E e \in RawRpcErrors : ServiceThrows(RejectionMessage(c, e.message), e.kind, c)
    /\ UNCHANGED <<req, nreq, chain, sp, oracle, srch, cache, now,
                   cacheMaxSize, cacheTtl, last, flight>>

DecimalsNext ==
    \E c \in PoolDecimalsCalls :
        \/ DecimalsResolves(c)
        \/ DecimalsRejects(c)

DecimalsSpec == DecimalsInit /\ [][DecimalsNext]_vars

\* C21: a decimals() answer outside [0, 77] is rejected with the
\* invalid-decimals error and the request fails; an answer inside [0, 77] is
\* returned unchanged by the decimals fetch.
C21_DecimalsRange ==
    \A c \in PoolDecimalsCalls :
        (fail.call = c /\ rpc[c] = "ok") =>
            LET decimals == DecimalsOf(TokenOf(c))
            IN IF decimals \in 0 .. 77
               THEN /\ result = [kind |-> "ok", message |-> << >>, value |-> <<decimals>>]
                    /\ pc # "done"
               ELSE /\ result.kind = "err"
                    /\ result.message = MsgInvalidDecimals(decimals, TokenOf(c))
                    /\ pc = "done"
                    /\ http.status >= HTTP_BAD_REQUEST

\* one token answered 77 and was accepted, the other answered 78 and failed
\* the request
C21_Witness ==
    /\ pc = "done"
    /\ fail.kind = "invalidDecimals"
    /\ \E c, d \in PoolDecimalsCalls :
         /\ rpc[c] = "ok" /\ rpc[d] = "ok" /\ fail.call = d
         /\ DecimalsOf(TokenOf(c)) = 77
         /\ DecimalsOf(TokenOf(d)) = 78

====
